---- MODULE Spec2Model ----
(***************************************************************************)
(* State-machine model of WebRTCManager (src/lib/webrtc.ts): the           *)
(* participant registry, the peer-connection table, the data-channel       *)
(* table, the delayed connect / reconnect timers, the offer / answer /     *)
(* candidate handlers and the chunked file transfer.                       *)
(*                                                                         *)
(* One action per socket handler, connection callback, timer callback or   *)
(* await continuation.  The browser's event loop runs each of them to      *)
(* completion, so each is one atomic step; an await splits a handler in    *)
(* two steps.                                                              *)
(***************************************************************************)
EXTENDS Integers, Sequences, FiniteSets, Bags

VARIABLES
    clientId,         \* this.clientId
    participants,     \* this.participants : clientId -> Participant
    peerConnections,  \* this.peerConnections : clientId -> connection
    dataChannels,     \* this.dataChannels : clientId -> channel (its readyState)
    timers,           \* pending setTimeout callbacks (a bag: two equal timers are two callbacks)
    liveConnections,  \* per remote id: RTCPeerConnection objects created and not yet closed
    transfers,        \* sendFile calls in progress (their position and captured locals)
    wire,             \* per remote id: envelopes handed to dc.send, in order
    nextTransfer,     \* number of transfer ids allocated by crypto.randomUUID()
    thrown,           \* number of sendFile calls that threw
    inbound,          \* envelopes delivered to handleDataChannelMessage so far (a bag)
    filesReceived,    \* completed files handed to onFileReceived, in order
    localStream,      \* this.localStream: the current MediaStream, or NoStream
    tracks,           \* every MediaStreamTrack getUserMedia returned: its kind and readyState
    acquiring,        \* getUserMedia calls in flight, by kind (a bag)
    lastEvent,        \* history: the event handled in the last step, for the handlers
                      \* whose steps the properties below single out
    notified,         \* the registry as last handed to onParticipantUpdate
    emitted,          \* the signals the last step handed to socket.emit("signal", ...)
    ends,             \* two managers in one room: per endpoint, its tables and connect timer
    relay             \* two managers in one room: the signals the relay has yet to deliver (a bag)

meshVars == <<clientId, participants, peerConnections, dataChannels, timers, liveConnections>>
sendVars == <<transfers, wire, nextTransfer, thrown>>
recvVars == <<inbound, filesReceived>>
mediaVars == <<localStream, tracks, acquiring>>
pairVars == <<ends, relay>>
vars == <<clientId, participants, peerConnections, dataChannels, timers, liveConnections,
          transfers, wire, nextTransfer, thrown, inbound, filesReceived,
          localStream, tracks, acquiring, lastEvent, notified, emitted, ends, relay>>

----------------------------------------------------------------------------
(* Identities and inputs *)

\* The remote client ids the relay may name.
Remote == {"a", "b"}
\* The id the page passes to setClientId.
LocalId == "me"
\* this.clientId before setClientId.
NoId == ""
\* Every id an inbound relay event may carry.
AnyId == Remote \cup {LocalId}
\* data.clientId / p.clientId of a payload that has no clientId: the key
\* `undefined` of the Map fields.
Undefined == "undefined"
\* Every key the peer-connection table may get.
Keys == Remote \cup {Undefined}
\* displayName is optional in user-joined and in participants-list entries.
NoName == "undefined"
Names == {NoName, "nick"}

\* Bounds of the model.
MaxTimers == 2
MaxCandidates == 1

\* lastEvent when the last step was none of the recorded events.
NoEvent == <<>>
\* A recorded event: the handler and the id (or media kind) it was about.
Event(name, about) == <<name, about>>
\* A handler ended in an exception that nothing caught.
Uncaught(handler, why) == <<"uncaught", handler, why>>
\* A step that emitted no signal.
NoSignals == <<>>
\* socket.emit("signal", {to, signal}): the addressee and what the signal is
\* ("offer", "answer" or "candidate").
Signal(to, type) == [to |-> to, type |-> type]
\* this.localStream === null
NoStream == <<>>
\* new MediaStream(tracks): a stream object is told from null by being a
\* one-element tuple that holds its set of tracks.
MediaStream(ts) == <<ts>>
\* stream.getTracks(), for a stream that may be null
getTracks(stream) == IF stream = NoStream THEN {} ELSE stream[1]
\* MediaStreamTrack.kind
Kinds == {"audio", "video"}

\* setTimeout delays (ms).
JoinDelay == 1000
RosterDelay == 500
ReconnectDelay == 3000

----------------------------------------------------------------------------
(* Maps (the three Map fields) *)

Has(m, k) == k \in DOMAIN m
Put(m, k, v) == [x \in DOMAIN m \cup {k} |-> IF x = k THEN v ELSE m[x]]
Delete(m, k) == [x \in DOMAIN m \ {k} |-> m[x]]
EmptyMap == [x \in {} |-> x]

\* `User ${clientId.slice(0, 8)}`
DefaultName(id) == <<"User", id>>

\* safeName of addParticipant / updateParticipantsList
SafeName(id, displayName) == IF displayName # NoName THEN displayName ELSE DefaultName(id)

\* The Participant value both insert sites build (no stream attached).
NewParticipant(id, displayName) ==
    [clientId |-> id, displayName |-> SafeName(id, displayName), isConnected |-> TRUE,
     stream |-> "none"]

\* NewConnection without the localStream.getTracks().forEach(addTrack) step.
NewConnectionBare(isInitiator) ==
    [role |-> IF isInitiator THEN "Initiator" ELSE "Responder",
     signalingState |-> "stable",
     remoteDescription |-> FALSE,
     ops |-> IF isInitiator THEN {"createOffer"} ELSE {},
     arrived |-> 0,
     applied |-> <<>>,
     senders |-> {}]

\* A connection as createPeerConnection leaves it when it returns or first suspends.
\*   role              isInitiator
\*   signalingState    pc.signalingState
\*   remoteDescription pc.remoteDescription is set
\*   ops               awaits in flight on this connection
\*   arrived           candidates delivered for this connection so far
\*   applied           arrival numbers of the candidates handed to pc.addIceCandidate
\*   senders           the local tracks handed to pc.addTrack
NewConnection(isInitiator) ==
    [role |-> IF isInitiator THEN "Initiator" ELSE "Responder",
     signalingState |-> "stable",
     remoteDescription |-> FALSE,
     ops |-> IF isInitiator THEN {"createOffer"} ELSE {},
     arrived |-> 0,
     applied |-> <<>>,
     senders |-> getTracks(localStream)]

\* The tables a handler works on, as one value.
Tables == [pc |-> peerConnections, dc |-> dataChannels, live |-> liveConnections]

\* createPeerConnection up to its first await: the existence check, the new
\* connection stored in the table and, for the initiator, the data channel.
createPeerConnection(t, remoteClientId, isInitiator) ==
    IF Has(t.pc, remoteClientId)
    THEN t
    ELSE [pc |-> Put(t.pc, remoteClientId, NewConnection(isInitiator)),
          dc |-> IF isInitiator THEN Put(t.dc, remoteClientId, "connecting") ELSE t.dc,
          live |-> [t.live EXCEPT ![remoteClientId] = @ + 1]]

\* ClosePc with the table entry deleted and pc.close() forgotten.
ClosePcLeaky(t, remoteClientId) ==
    [t EXCEPT !.pc = Delete(t.pc, remoteClientId)]

\* pc.close() on the connection of remoteClientId that the table held: the
\* connection object is closed and so is every data channel it carries.
ClosePc(t, remoteClientId) ==
    [pc |-> Delete(t.pc, remoteClientId),
     dc |-> IF Has(t.dc, remoteClientId)
            THEN [t.dc EXCEPT ![remoteClientId] = "closed"] ELSE t.dc,
     live |-> [t.live EXCEPT ![remoteClientId] = @ - 1]]

\* removeParticipant without `this.dataChannels.delete(clientId)`.
removeParticipantKeepChannel(t, remoteClientId) ==
    IF Has(t.pc, remoteClientId) THEN ClosePc(t, remoteClientId) ELSE t

\* removeParticipant, the table part: close and delete the connection, close
\* and delete the data channel.
removeParticipant(t, remoteClientId) ==
    LET t1 == IF Has(t.pc, remoteClientId) THEN ClosePc(t, remoteClientId) ELSE t
    IN  [t1 EXCEPT !.dc = Delete(t1.dc, remoteClientId)]

Timer(kind, id) ==
    [kind |-> kind, id |-> id,
     delay |-> CASE kind = "join" -> JoinDelay
                 [] kind = "roster" -> RosterDelay
                 [] OTHER -> ReconnectDelay]

Schedule(bag, t) == bag (+) SetToBag({t})
Cancel(bag, t) == bag (-) SetToBag({t})
Room(n) == BagCardinality(timers) + n <= MaxTimers

Ready == clientId # NoId

\* notifyParticipantUpdate(): the subscriber gets the registry as the step leaves it.
notifyParticipantUpdate == notified' = participants'

\* A step that calls neither onParticipantUpdate nor socket.emit.
Quiet ==
    /\ emitted' = NoSignals
    /\ UNCHANGED notified

StoreTables(t) ==
    /\ peerConnections' = t.pc
    /\ dataChannels' = t.dc
    /\ liveConnections' = t.live

----------------------------------------------------------------------------
(* Construction *)

setClientId(id) ==
    /\ clientId = NoId
    /\ clientId' = id
    /\ UNCHANGED <<participants, peerConnections, dataChannels, timers, liveConnections>>
    /\ UNCHANGED <<sendVars, recvVars, pairVars, mediaVars>>
    /\ Quiet
    /\ lastEvent' = NoEvent

----------------------------------------------------------------------------
(* Relay events *)

\* socket.on("user-joined")
UserJoined(id, displayName) ==
    /\ Ready
    /\ IF id # clientId
       THEN /\ Room(1)
            /\ participants' = Put(participants, id, NewParticipant(id, displayName))
            /\ timers' = Schedule(timers, Timer("join", id))
       ELSE UNCHANGED <<participants, timers>>
    /\ UNCHANGED <<clientId, peerConnections, dataChannels, liveConnections>>
    /\ UNCHANGED <<sendVars, recvVars, pairVars, mediaVars>>
    /\ emitted' = NoSignals
    /\ IF id # clientId THEN notifyParticipantUpdate ELSE UNCHANGED notified
    /\ lastEvent' = IF id = clientId THEN Event("user-joined", id) ELSE NoEvent

\* UserLeft that clears the registry instead of deleting the one entry.
UserLeftEveryone(id) ==
    /\ Ready
    /\ StoreTables(removeParticipant(Tables, id))
    /\ participants' = EmptyMap
    /\ UNCHANGED <<clientId, timers>>
    /\ UNCHANGED <<sendVars, recvVars, pairVars, mediaVars>>
    /\ emitted' = NoSignals
    /\ notifyParticipantUpdate
    /\ lastEvent' = Event("user-left", id)

\* socket.on("user-left")
UserLeft(id) ==
    /\ Ready
    /\ StoreTables(removeParticipant(Tables, id))
    /\ participants' = Delete(participants, id)
    /\ UNCHANGED <<clientId, timers>>
    /\ UNCHANGED <<sendVars, recvVars, pairVars, mediaVars>>
    /\ emitted' = NoSignals
    /\ notifyParticipantUpdate
    /\ lastEvent' = Event("user-left", id)

\* updateParticipantsList without the `p.clientId !== this.clientId` test.
updateParticipantsListAll(list) ==
    [id \in DOMAIN list |-> NewParticipant(id, list[id])]

\* updateParticipantsList: the registry after a snapshot (a well-formed array).
updateParticipantsList(list) ==
    [id \in DOMAIN list \ {clientId} |-> NewParticipant(id, list[id])]

\* ParticipantsList without the `this.participants.clear()` of
\* updateParticipantsList: the listed entries are set over the old registry.
ParticipantsListKeeping(list) ==
    LET others == DOMAIN list \ {clientId}
        toConnect == {id \in others : ~Has(peerConnections, id)}
    IN  /\ Ready
        /\ Room(Cardinality(toConnect))
        /\ participants' = [id \in DOMAIN participants \cup others |->
                              IF id \in others THEN NewParticipant(id, list[id])
                              ELSE participants[id]]
        /\ timers' = timers (+) SetToBag({Timer("roster", id) : id \in toConnect})
        /\ UNCHANGED <<clientId, peerConnections, dataChannels, liveConnections>>
        /\ UNCHANGED <<sendVars, recvVars, pairVars, mediaVars>>
        /\ emitted' = NoSignals
        /\ notifyParticipantUpdate
        /\ lastEvent' = IF clientId \in DOMAIN list
                         THEN Event("participants-list", DOMAIN list) ELSE NoEvent

\* socket.on("participants-list"); list maps each listed clientId to its displayName.
ParticipantsList(list) ==
    LET others == DOMAIN list \ {clientId}
        toConnect == {id \in others : ~Has(peerConnections, id)}
    IN  /\ Ready
        /\ Room(Cardinality(toConnect))
        /\ participants' = updateParticipantsList(list)
        /\ timers' = timers (+) SetToBag({Timer("roster", id) : id \in toConnect})
        /\ UNCHANGED <<clientId, peerConnections, dataChannels, liveConnections>>
        /\ UNCHANGED <<sendVars, recvVars, pairVars, mediaVars>>
        /\ emitted' = NoSignals
        /\ notifyParticipantUpdate
        /\ lastEvent' = IF clientId \in DOMAIN list
                         THEN Event("participants-list", DOMAIN list) ELSE NoEvent

\* socket.on("user-joined") with a payload that has no clientId.  Without a
\* displayName the handler throws on `data.clientId.slice`.  With one,
\* addParticipant rejects the id and returns, and the handler goes on to set the
\* connect timer for the key `undefined`.
UserJoinedMalformed(displayName) ==
    /\ Ready
    /\ IF displayName = NoName
       THEN /\ UNCHANGED timers
            /\ lastEvent' = Uncaught("user-joined", "no-clientId")
       ELSE /\ Room(1)
            /\ timers' = Schedule(timers, Timer("join", Undefined))
            /\ lastEvent' = Event("user-joined", Undefined)
    /\ UNCHANGED <<clientId, participants, peerConnections, dataChannels, liveConnections>>
    /\ UNCHANGED <<sendVars, recvVars, pairVars, mediaVars>>
    /\ Quiet

\* What is wrong with a participants-list payload: it is no array, or it is an
\* array that holds, next to its valid entries, a null or an entry without
\* clientId.
Junk == {"not-array", "null-entry", "no-id-entry"}

\* socket.on("participants-list") with a malformed payload; list holds the
\* payload's valid entries.  updateParticipantsList empties the registry for a
\* non-array and skips a null or id-less entry, and notifies.  Back in the
\* handler, `participants.filter` throws for a non-array and its callback throws
\* on a null entry, so no timer is set; an id-less entry passes the filter and
\* gets a timer for the key `undefined`.
ParticipantsListMalformed(list, junk) ==
    LET others == DOMAIN list \ {clientId}
        toConnect == {id \in others \cup {Undefined} : ~Has(peerConnections, id)}
    IN  /\ Ready
        /\ participants' = IF junk = "not-array" THEN EmptyMap
                           ELSE updateParticipantsList(list)
        /\ notifyParticipantUpdate
        /\ IF junk = "no-id-entry"
           THEN /\ Room(Cardinality(toConnect))
                /\ timers' = timers (+) SetToBag({Timer("roster", id) : id \in toConnect})
                /\ lastEvent' = Event("malformed-participants-list", DOMAIN list)
           ELSE /\ UNCHANGED timers
                /\ lastEvent' = Uncaught("participants-list", junk)
        /\ emitted' = NoSignals
        /\ UNCHANGED <<clientId, peerConnections, dataChannels, liveConnections>>
        /\ UNCHANGED <<sendVars, recvVars, pairVars, mediaVars>>

\* socket.on("signal") with a payload that has no signal object: the handler
\* throws on `data.signal.type`, before its try block.
SignalMalformed(from) ==
    /\ Ready
    /\ UNCHANGED <<meshVars, sendVars, recvVars, pairVars, mediaVars>>
    /\ Quiet
    /\ lastEvent' = Uncaught("signal", "no-signal")

----------------------------------------------------------------------------
(* Timer callbacks *)

\* The callback of the 1000 ms timer set by user-joined.
JoinTimer(id) ==
    /\ BagIn(Timer("join", id), timers)
    /\ timers' = Cancel(timers, Timer("join", id))
    /\ IF ~Has(peerConnections, id)
       THEN StoreTables(createPeerConnection(Tables, id, TRUE))
       ELSE UNCHANGED <<peerConnections, dataChannels, liveConnections>>
    /\ UNCHANGED <<clientId, participants>>
    /\ UNCHANGED <<sendVars, recvVars, pairVars, mediaVars>>
    /\ Quiet
    /\ lastEvent' = NoEvent

\* The callback of the 500 ms timer set by participants-list.
RosterTimer(id) ==
    /\ BagIn(Timer("roster", id), timers)
    /\ timers' = Cancel(timers, Timer("roster", id))
    /\ IF ~Has(peerConnections, id) /\ Has(participants, id)
       THEN StoreTables(createPeerConnection(Tables, id, TRUE))
       ELSE UNCHANGED <<peerConnections, dataChannels, liveConnections>>
    /\ UNCHANGED <<clientId, participants>>
    /\ UNCHANGED <<sendVars, recvVars, pairVars, mediaVars>>
    /\ Quiet
    /\ lastEvent' = NoEvent

\* ReconnectTimer without the this.participants.has(remoteClientId) test.
ReconnectTimerAnyone(id) ==
    /\ BagIn(Timer("reconnect", id), timers)
    /\ timers' = Cancel(timers, Timer("reconnect", id))
    /\ IF ~Has(peerConnections, id)
       THEN StoreTables(createPeerConnection(Tables, id, TRUE))
       ELSE UNCHANGED <<peerConnections, dataChannels, liveConnections>>
    /\ UNCHANGED <<clientId, participants>>
    /\ UNCHANGED <<sendVars, recvVars, pairVars, mediaVars>>
    /\ Quiet
    /\ lastEvent' = NoEvent

\* The callback of the 3000 ms timer set when a connection failed.
ReconnectTimer(id) ==
    /\ BagIn(Timer("reconnect", id), timers)
    /\ timers' = Cancel(timers, Timer("reconnect", id))
    /\ IF Has(participants, id) /\ ~Has(peerConnections, id)
       THEN StoreTables(createPeerConnection(Tables, id, TRUE))
       ELSE UNCHANGED <<peerConnections, dataChannels, liveConnections>>
    /\ UNCHANGED <<clientId, participants>>
    /\ UNCHANGED <<sendVars, recvVars, pairVars, mediaVars>>
    /\ Quiet
    /\ lastEvent' = NoEvent

----------------------------------------------------------------------------
(* Connection callbacks *)

\* ConnectionFailed with the setTimeout of the "failed" branch left out.
ConnectionFailedNoRetry(id) ==
    /\ Has(peerConnections, id)
    /\ StoreTables(ClosePc(Tables, id))
    /\ UNCHANGED <<clientId, participants, timers>>
    /\ UNCHANGED <<sendVars, recvVars, pairVars, mediaVars>>
    /\ Quiet
    /\ lastEvent' = NoEvent

\* pc.onconnectionstatechange with pc.connectionState === "failed"
ConnectionFailed(id) ==
    /\ Has(peerConnections, id)
    /\ Room(1)
    /\ StoreTables(ClosePc(Tables, id))
    /\ timers' = Schedule(timers, Timer("reconnect", id))
    /\ UNCHANGED <<clientId, participants>>
    /\ UNCHANGED <<sendVars, recvVars, pairVars, mediaVars>>
    /\ Quiet
    /\ lastEvent' = NoEvent

\* ConnectionStateChanged with "disconnected" handled as "failed" is: the link
\* removed, the connection closed and a reconnect timer set.
ConnectionStateChangedEager(id, connectionState) ==
    /\ Has(peerConnections, id)
    /\ peerConnections[id].remoteDescription
    /\ Room(1)
    /\ IF connectionState = "disconnected"
       THEN /\ StoreTables(ClosePc(Tables, id))
            /\ timers' = Schedule(timers, Timer("reconnect", id))
       ELSE UNCHANGED <<peerConnections, dataChannels, liveConnections, timers>>
    /\ UNCHANGED <<clientId, participants>>
    /\ UNCHANGED <<sendVars, recvVars, pairVars, mediaVars>>
    /\ Quiet
    /\ lastEvent' = Event(connectionState, id)

\* pc.onconnectionstatechange with a pc.connectionState other than "failed":
\* the state is logged ("disconnected" with a note that the manager waits for
\* "failed") and nothing is done.  A connection gets this far only once it has
\* a remote description.
ConnectionStateChanged(id, connectionState) ==
    /\ Has(peerConnections, id)
    /\ peerConnections[id].remoteDescription
    /\ UNCHANGED meshVars
    /\ UNCHANGED <<sendVars, recvVars, pairVars, mediaVars>>
    /\ Quiet
    /\ lastEvent' = Event(connectionState, id)

\* pc.ontrack: inbound media arrived on the connection to id; with the
\* participant in the registry and a stream in the event, the stream is attached
\* to the participant and the subscriber notified.
RemoteTrack(id, withStream) ==
    /\ Has(peerConnections, id)
    /\ peerConnections[id].remoteDescription
    /\ IF Has(participants, id) /\ withStream
       THEN /\ participants' = [participants EXCEPT ![id].stream = "remote"]
            /\ notifyParticipantUpdate
       ELSE UNCHANGED <<participants, notified>>
    /\ emitted' = NoSignals
    /\ UNCHANGED <<clientId, peerConnections, dataChannels, timers, liveConnections>>
    /\ UNCHANGED <<sendVars, recvVars, pairVars, mediaVars>>
    /\ lastEvent' = Event("track", id)

\* The connection has a local description (an offer or an answer was set with
\* setLocalDescription), which is when it starts to gather candidates.
LocalDescriptionSet(pc) ==
    \/ pc.signalingState = "have-local-offer"
    \/ pc.signalingState = "stable" /\ pc.remoteDescription

\* LocalCandidate that relays the candidate to every remote id.
LocalCandidateToAll(id, candidate) ==
    /\ Has(peerConnections, id)
    /\ LocalDescriptionSet(peerConnections[id])
    /\ emitted' = IF candidate # "null"
                  THEN <<Signal("a", "candidate"), Signal("b", "candidate")>>
                  ELSE NoSignals
    /\ UNCHANGED notified
    /\ UNCHANGED <<meshVars, sendVars, recvVars, pairVars, mediaVars>>
    /\ lastEvent' = Event("icecandidate", <<id, candidate>>)

\* pc.onicecandidate: the connection to id gathered a local candidate, or
\* finished gathering (event.candidate is null); a candidate is relayed to id.
LocalCandidate(id, candidate) ==
    /\ Has(peerConnections, id)
    /\ LocalDescriptionSet(peerConnections[id])
    /\ emitted' = IF candidate # "null" THEN <<Signal(id, "candidate")>> ELSE NoSignals
    /\ UNCHANGED notified
    /\ UNCHANGED <<meshVars, sendVars, recvVars, pairVars, mediaVars>>
    /\ lastEvent' = Event("icecandidate", <<id, candidate>>)

\* pc.ondatachannel: the remote side's channel arrives on an established connection.
\* The handler is assigned at the end of createPeerConnection, after its awaits.
DataChannelArrived(id, readyState) ==
    /\ Has(peerConnections, id)
    /\ peerConnections[id].remoteDescription
    /\ "createOffer" \notin peerConnections[id].ops
    /\ dataChannels' = Put(dataChannels, id, readyState)
    /\ UNCHANGED <<clientId, participants, peerConnections, timers, liveConnections>>
    /\ UNCHANGED <<sendVars, recvVars, pairVars, mediaVars>>
    /\ Quiet
    /\ lastEvent' = NoEvent

\* dataChannel.onopen: only logs; the channel's readyState is now "open".
DataChannelOpened(id) ==
    /\ Has(peerConnections, id)
    /\ peerConnections[id].remoteDescription
    /\ Has(dataChannels, id)
    /\ dataChannels[id] = "connecting"
    /\ dataChannels' = [dataChannels EXCEPT ![id] = "open"]
    /\ UNCHANGED <<clientId, participants, peerConnections, timers, liveConnections>>
    /\ UNCHANGED <<sendVars, recvVars, pairVars, mediaVars>>
    /\ Quiet
    /\ lastEvent' = NoEvent

\* dataChannel.onclose: only logs; the remote side closed the channel.
DataChannelClosed(id) ==
    /\ Has(dataChannels, id)
    /\ dataChannels[id] \in {"connecting", "open"}
    /\ dataChannels' = [dataChannels EXCEPT ![id] = "closed"]
    /\ UNCHANGED <<clientId, participants, peerConnections, timers, liveConnections>>
    /\ UNCHANGED <<transfers, wire, nextTransfer, thrown, recvVars, pairVars, mediaVars>>
    /\ Quiet
    /\ lastEvent' = NoEvent

----------------------------------------------------------------------------
(* Signal handlers *)

StartOp(pcs, id, op) == [pcs EXCEPT ![id].ops = @ \cup {op}]
EndOp(pcs, id, op) == [pcs EXCEPT ![id].ops = @ \ {op}]

\* handleOffer that creates the missing link with isInitiator true.
handleOfferAsInitiator(from) ==
    LET t == IF Has(peerConnections, from)
             THEN Tables
             ELSE createPeerConnection(Tables, from, TRUE)
    IN  /\ Ready
        /\ "setRemoteOffer" \notin t.pc[from].ops
        /\ StoreTables([t EXCEPT !.pc = StartOp(t.pc, from, "setRemoteOffer")])
        /\ UNCHANGED <<clientId, participants, timers>>
        /\ UNCHANGED <<sendVars, recvVars, pairVars, mediaVars>>
        /\ Quiet
        /\ lastEvent' = NoEvent

\* socket.on("signal") with signal.type === "offer": handleOffer up to
\* `await pc.setRemoteDescription(offer)`.
handleOffer(from) ==
    LET t == IF Has(peerConnections, from)
             THEN Tables
             ELSE createPeerConnection(Tables, from, FALSE)
    IN  /\ Ready
        /\ "setRemoteOffer" \notin t.pc[from].ops
        /\ StoreTables([t EXCEPT !.pc = StartOp(t.pc, from, "setRemoteOffer")])
        /\ UNCHANGED <<clientId, participants, timers>>
        /\ UNCHANGED <<sendVars, recvVars, pairVars, mediaVars>>
        /\ Quiet
        /\ lastEvent' = NoEvent

\* handleOffer after the await: the description was applied and the answer made
\* and relayed ("answered"), applied but createAnswer / setLocalDescription threw
\* ("unanswered"), or setRemoteDescription threw ("rejected"); both throws are
\* caught and logged.
handleOfferResumed(from, outcome) ==
    /\ Has(peerConnections, from)
    /\ "setRemoteOffer" \in peerConnections[from].ops
    /\ peerConnections' =
         LET pcs == EndOp(peerConnections, from, "setRemoteOffer")
         IN  CASE outcome = "answered" ->
                    [pcs EXCEPT ![from].remoteDescription = TRUE,
                                ![from].signalingState = "stable"]
               [] outcome = "unanswered" ->
                    [pcs EXCEPT ![from].remoteDescription = TRUE,
                                ![from].signalingState = "have-remote-offer"]
               [] OTHER -> pcs
    /\ UNCHANGED <<clientId, participants, dataChannels, timers, liveConnections>>
    /\ UNCHANGED <<sendVars, recvVars, pairVars, mediaVars>>
    /\ emitted' = IF outcome = "answered" THEN <<Signal(from, "answer")>> ELSE NoSignals
    /\ UNCHANGED notified
    /\ lastEvent' = NoEvent

\* handleAnswer that creates the link when the table has none for the sender.
handleAnswerCreating(from) ==
    LET t == IF Has(peerConnections, from)
             THEN Tables
             ELSE createPeerConnection(Tables, from, FALSE)
    IN  /\ Ready
        /\ "setRemoteAnswer" \notin t.pc[from].ops
        /\ StoreTables([t EXCEPT !.pc = StartOp(t.pc, from, "setRemoteAnswer")])
        /\ UNCHANGED <<clientId, participants, timers>>
        /\ UNCHANGED <<sendVars, recvVars, pairVars, mediaVars>>
        /\ Quiet
        /\ lastEvent' = IF Has(peerConnections, from) THEN NoEvent ELSE Event("answer", from)

\* signal.type === "answer": handleAnswer up to `await pc.setRemoteDescription(answer)`.
handleAnswer(from) ==
    /\ Ready
    /\ IF Has(peerConnections, from)
       THEN /\ "setRemoteAnswer" \notin peerConnections[from].ops
            /\ peerConnections' = StartOp(peerConnections, from, "setRemoteAnswer")
       ELSE UNCHANGED peerConnections
    /\ UNCHANGED <<clientId, participants, dataChannels, timers, liveConnections>>
    /\ UNCHANGED <<sendVars, recvVars, pairVars, mediaVars>>
    /\ Quiet
    /\ lastEvent' = IF Has(peerConnections, from) THEN NoEvent ELSE Event("answer", from)

\* handleAnswer after the await.  An answer is accepted only while the local
\* offer is outstanding; otherwise setRemoteDescription throws and is logged.
handleAnswerResumed(from, accepted) ==
    /\ Has(peerConnections, from)
    /\ "setRemoteAnswer" \in peerConnections[from].ops
    /\ accepted => peerConnections[from].signalingState = "have-local-offer"
    /\ peerConnections' =
         LET pcs == EndOp(peerConnections, from, "setRemoteAnswer")
         IN  IF accepted
             THEN [pcs EXCEPT ![from].remoteDescription = TRUE,
                              ![from].signalingState = "stable"]
             ELSE pcs
    /\ UNCHANGED <<clientId, participants, dataChannels, timers, liveConnections>>
    /\ UNCHANGED <<sendVars, recvVars, pairVars, mediaVars>>
    /\ Quiet
    /\ lastEvent' = NoEvent

\* handleIceCandidate on one connection: the candidate is handed to
\* addIceCandidate only if the remote description is set (a throw of
\* addIceCandidate is caught and logged); otherwise nothing is done with it.
AddCandidate(pc) ==
    LET n == pc.arrived + 1
    IN  [pc EXCEPT !.arrived = n,
                   !.applied = IF pc.remoteDescription THEN Append(@, n) ELSE @]

\* signal with a candidate field
handleIceCandidate(from) ==
    /\ Ready
    /\ IF Has(peerConnections, from)
       THEN /\ peerConnections[from].arrived < MaxCandidates
            /\ peerConnections' = [peerConnections EXCEPT ![from] = AddCandidate(@)]
       ELSE UNCHANGED peerConnections
    /\ UNCHANGED <<clientId, participants, dataChannels, timers, liveConnections>>
    /\ UNCHANGED <<sendVars, recvVars, pairVars, mediaVars>>
    /\ Quiet
    /\ lastEvent' = IF Has(peerConnections, from) THEN NoEvent ELSE Event("candidate", from)

\* createPeerConnection (initiator) after `await pc.createOffer()` and
\* `await pc.setLocalDescription(offer)`: the offer is relayed, or one of the
\* two threw and the error is logged.
createOfferResumed(id, created) ==
    /\ Has(peerConnections, id)
    /\ "createOffer" \in peerConnections[id].ops
    /\ created => peerConnections[id].signalingState # "have-remote-offer"
    /\ peerConnections' =
         LET pcs == EndOp(peerConnections, id, "createOffer")
         IN  IF created
             THEN [pcs EXCEPT ![id].signalingState = "have-local-offer"]
             ELSE pcs
    /\ UNCHANGED <<clientId, participants, dataChannels, timers, liveConnections>>
    /\ UNCHANGED <<sendVars, recvVars, pairVars, mediaVars>>
    /\ emitted' = IF created THEN <<Signal(id, "offer")>> ELSE NoSignals
    /\ UNCHANGED notified
    /\ lastEvent' = NoEvent

----------------------------------------------------------------------------
(* Local media *)

\* Bound: getUserMedia calls that are pending or have returned a track.
MaxAcquisitions == 3

\* track.stop() on each of the given tracks.
StopTracks(ts, ids) ==
    [id \in DOMAIN ts |-> IF id \in ids THEN [ts[id] EXCEPT !.readyState = "ended"] ELSE ts[id]]

\* localStream.getAudioTracks() / getVideoTracks()
TracksOf(stream, kind) ==
    {id \in getTracks(stream) : tracks[id].kind = kind}

\* OtherKind that answers the kind it was given.
SameKind(kind) == kind

\* The kind whose tracks a start or stop call of this kind keeps.
OtherKind(kind) == IF kind = "audio" THEN "video" ELSE "audio"

\* How a startLocalAudio / startLocalVideo call ended: what getUserMedia did
\* ("acquired", "denied") and how the call's promise settled for the caller
\* ("stream": resolved with this.localStream, "null": resolved with null,
\* "throws": rejected).
StartResult(kind, outcome, settled) == <<"startLocal", kind, outcome, settled>>
Settlements == {"stream", "null", "throws"}

\* startLocalAudio / startLocalVideo up to `await getUserMedia(...)`.
startLocal(kind) ==
    /\ Ready
    /\ Cardinality(DOMAIN tracks) + BagCardinality(acquiring) < MaxAcquisitions
    /\ acquiring' = acquiring (+) SetToBag({kind})
    /\ UNCHANGED <<localStream, tracks>>
    /\ UNCHANGED <<meshVars, sendVars, recvVars, pairVars>>
    /\ Quiet
    /\ lastEvent' = NoEvent

startLocalAudio == startLocal("audio")
startLocalVideo == startLocal("video")

\* startLocalAcquired without the stop() of the old tracks of the same kind.
startLocalAcquiredNoStop(kind) ==
    LET new == Cardinality(DOMAIN tracks) + 1
    IN  /\ BagIn(kind, acquiring)
        /\ acquiring' = acquiring (-) SetToBag({kind})
        /\ tracks' = Put(tracks, new, [kind |-> kind, readyState |-> "live"])
        /\ localStream' = MediaStream(TracksOf(localStream, OtherKind(kind)) \cup {new})
        /\ peerConnections' =
             [id \in DOMAIN peerConnections |->
                 [peerConnections[id] EXCEPT !.senders = @ \cup {new}]]
        /\ UNCHANGED <<clientId, participants, dataChannels, timers, liveConnections>>
        /\ UNCHANGED <<sendVars, recvVars, pairVars>>
        /\ Quiet
        /\ lastEvent' = StartResult(kind, "acquired", "stream")

\* startLocalAudio / startLocalVideo after getUserMedia resolved with a stream
\* of one new track: with a local stream, the new stream has its tracks of the
\* other kind and the new track, and its tracks of this kind are stopped;
\* without one, the new stream is the acquired one.  The new track is added to
\* every connection in the table, and this.localStream is returned.
startLocalAcquired(kind) ==
    LET new == Cardinality(DOMAIN tracks) + 1
    IN  /\ BagIn(kind, acquiring)
        /\ acquiring' = acquiring (-) SetToBag({kind})
        /\ tracks' = Put(StopTracks(tracks, TracksOf(localStream, kind)), new,
                         [kind |-> kind, readyState |-> "live"])
        /\ localStream' = MediaStream(TracksOf(localStream, OtherKind(kind)) \cup {new})
        /\ peerConnections' =
             [id \in DOMAIN peerConnections |->
                 [peerConnections[id] EXCEPT !.senders = @ \cup {new}]]
        /\ UNCHANGED <<clientId, participants, dataChannels, timers, liveConnections>>
        /\ UNCHANGED <<sendVars, recvVars, pairVars>>
        /\ Quiet
        /\ lastEvent' = StartResult(kind, "acquired", "stream")

\* startLocalAudio / startLocalVideo after getUserMedia rejected (permission
\* denied, no device): the catch block logs the error and returns null.
startLocalDenied(kind) ==
    /\ BagIn(kind, acquiring)
    /\ acquiring' = acquiring (-) SetToBag({kind})
    /\ UNCHANGED <<localStream, tracks>>
    /\ UNCHANGED <<meshVars, sendVars, recvVars, pairVars>>
    /\ Quiet
    /\ lastEvent' = StartResult(kind, "denied", "null")

\* stopAllMedia(): every track of the local stream stopped, the stream dropped.
stopAllMedia ==
    /\ tracks' = StopTracks(tracks, getTracks(localStream))
    /\ localStream' = NoStream

\* stopLocal that stops every track of the local stream and drops the stream.
stopLocalEverything(kind) ==
    /\ Ready
    /\ stopAllMedia
    /\ UNCHANGED acquiring
    /\ UNCHANGED <<meshVars, sendVars, recvVars, pairVars>>
    /\ Quiet
    /\ lastEvent' = Event("stopLocal", kind)

\* stopLocalAudio / stopLocalVideo: the stream's tracks of this kind are
\* stopped; the stream becomes a new one of its other tracks, or null when
\* there is none; without a stream nothing is done.
stopLocal(kind) ==
    /\ Ready
    /\ IF localStream # NoStream
       THEN /\ tracks' = StopTracks(tracks, TracksOf(localStream, kind))
            /\ localStream' = IF TracksOf(localStream, OtherKind(kind)) # {}
                              THEN MediaStream(TracksOf(localStream, OtherKind(kind)))
                              ELSE NoStream
       ELSE UNCHANGED <<localStream, tracks>>
    /\ UNCHANGED acquiring
    /\ UNCHANGED <<meshVars, sendVars, recvVars, pairVars>>
    /\ Quiet
    /\ lastEvent' = Event("stopLocal", kind)

stopLocalAudio == stopLocal("audio")
stopLocalVideo == stopLocal("video")

----------------------------------------------------------------------------
(* Teardown *)

\* cleanup without the stopAllMedia() call.
cleanupKeepMedia ==
    /\ participants' = EmptyMap
    /\ peerConnections' = EmptyMap
    /\ dataChannels' = EmptyMap
    /\ liveConnections' =
         [id \in Keys |-> IF Has(peerConnections, id)
                          THEN liveConnections[id] - 1 ELSE liveConnections[id]]
    /\ UNCHANGED <<clientId, timers, mediaVars>>
    /\ UNCHANGED <<sendVars, recvVars, pairVars>>
    /\ Quiet
    /\ lastEvent' = Event("cleanup", clientId)

\* cleanup(): the local media stopped, every channel and connection closed, the
\* three tables cleared.
cleanup ==
    /\ stopAllMedia
    /\ participants' = EmptyMap
    /\ peerConnections' = EmptyMap
    /\ dataChannels' = EmptyMap
    /\ liveConnections' =
         [id \in Keys |-> IF Has(peerConnections, id)
                          THEN liveConnections[id] - 1 ELSE liveConnections[id]]
    /\ UNCHANGED <<clientId, timers, acquiring>>
    /\ UNCHANGED <<sendVars, recvVars, pairVars>>
    /\ Quiet
    /\ lastEvent' = Event("cleanup", clientId)

----------------------------------------------------------------------------
(* The connection mesh *)

Init ==
    /\ clientId = NoId
    /\ participants = EmptyMap
    /\ peerConnections = EmptyMap
    /\ dataChannels = EmptyMap
    /\ timers = EmptyBag
    /\ liveConnections = [id \in Keys |-> 0]
    /\ transfers = EmptyMap
    /\ wire = [id \in Remote |-> <<>>]
    /\ nextTransfer = 0
    /\ thrown = 0
    /\ inbound = EmptyBag
    /\ filesReceived = <<>>
    /\ localStream = NoStream
    /\ tracks = EmptyMap
    /\ acquiring = EmptyBag
    /\ lastEvent = NoEvent
    /\ notified = EmptyMap
    /\ emitted = NoSignals
    /\ ends = EmptyMap
    /\ relay = EmptyBag

\* Every handler that writes the registry, the membership of the two tables or
\* the timers, for both remote ids.  The handlers left to LinkNext (answers,
\* candidates, data-channel events) change only the negotiation fields of one
\* connection or one channel's readyState; no handler decides on the registry,
\* on the tables' membership or on a timer from those.  Relay events that name
\* the local id are inputs of LinkNext.
Next ==
    \/ setClientId(LocalId)
    \/ \E id \in Remote : UserJoined(id, NoName)
    \/ \E id \in Remote : UserLeft(id)
    \/ \E ids \in SUBSET Remote : ParticipantsList([id \in ids |-> NoName])
    \/ \E id \in Remote : JoinTimer(id)
    \/ \E id \in Remote : RosterTimer(id)
    \/ \E id \in Remote : ReconnectTimer(id)
    \/ \E id \in Remote : ConnectionFailed(id)
    \/ \E id \in Remote : handleOffer(id)
    \/ \E id \in Remote, o \in {"answered", "unanswered", "rejected"} : handleOfferResumed(id, o)
    \/ \E id \in Remote, ok \in BOOLEAN : createOfferResumed(id, ok)
    \/ cleanup

Spec == Init /\ [][Next]_vars

----------------------------------------------------------------------------
(* One link: every handler, for the events that name one remote id *)

Peer == "a"

LinkNext ==
    \/ setClientId(LocalId)
    \/ \E id \in {Peer, LocalId}, n \in Names : UserJoined(id, n)
    \/ UserLeft(Peer)
    \/ \E ids \in SUBSET {Peer, LocalId} : \E list \in [ids -> Names] : ParticipantsList(list)
    \/ JoinTimer(Peer)
    \/ RosterTimer(Peer)
    \/ ReconnectTimer(Peer)
    \/ ConnectionFailed(Peer)
    \/ \E cs \in {"connected", "disconnected"} : ConnectionStateChanged(Peer, cs)
    \/ \E s \in {"connecting", "open"} : DataChannelArrived(Peer, s)
    \/ DataChannelOpened(Peer)
    \/ DataChannelClosed(Peer)
    \/ handleOffer(Peer)
    \/ \E o \in {"answered", "unanswered", "rejected"} : handleOfferResumed(Peer, o)
    \/ handleAnswer(Peer)
    \/ \E ok \in BOOLEAN : handleAnswerResumed(Peer, ok)
    \/ handleIceCandidate(Peer)
    \/ \E ok \in BOOLEAN : createOfferResumed(Peer, ok)
    \/ cleanup

SpecLink == Init /\ [][LinkNext]_vars

----------------------------------------------------------------------------
(* The relay's events, well-formed and malformed, and what follows from them *)

RelayNext ==
    \/ setClientId(LocalId)
    \/ \E id \in {Peer, LocalId}, n \in Names : UserJoined(id, n)
    \/ \E n \in Names : UserJoinedMalformed(n)
    \/ UserLeft(Peer)
    \/ \E ids \in SUBSET {Peer, LocalId} : \E list \in [ids -> Names] : ParticipantsList(list)
    \/ \E ids \in SUBSET {Peer, LocalId}, junk \in Junk :
         ParticipantsListMalformed([id \in ids |-> NoName], junk)
    \/ SignalMalformed(Peer)
    \/ \E id \in {Peer, Undefined} : JoinTimer(id)
    \/ \E id \in {Peer, Undefined} : RosterTimer(id)
    \/ \E id \in {Peer, Undefined}, ok \in BOOLEAN : createOfferResumed(id, ok)
    \/ \E ws \in BOOLEAN : RemoteTrack(Peer, ws)
    \/ handleOffer(Peer)
    \/ handleOfferResumed(Peer, "answered")
    \/ cleanup

SpecRelay == Init /\ [][RelayNext]_vars

----------------------------------------------------------------------------
(* Signalling and media of the links: offers, answers and candidates in and
   out, remote tracks, failure and reconnection.  "a" goes through a link's whole
   life; "b" offers, so that a second link negotiates at the same time. *)

SignalNext ==
    \/ setClientId(LocalId)
    \/ UserJoined(Peer, NoName)
    \/ UserLeft(Peer)
    \/ JoinTimer(Peer)
    \/ ReconnectTimer(Peer)
    \/ ConnectionFailed(Peer)
    \/ \E ok \in BOOLEAN : createOfferResumed(Peer, ok)
    \/ \E id \in Remote : handleOffer(id)
    \/ \E id \in Remote, o \in {"answered", "unanswered", "rejected"} : handleOfferResumed(id, o)
    \/ handleAnswer(Peer)
    \/ \E ok \in BOOLEAN : handleAnswerResumed(Peer, ok)
    \/ handleIceCandidate(Peer)
    \/ \E id \in Remote, c \in {"candidate", "null"} : LocalCandidate(id, c)
    \/ \E ws \in BOOLEAN : RemoteTrack(Peer, ws)

SpecSignal == Init /\ [][SignalNext]_vars

----------------------------------------------------------------------------
(* Two links side by side: the events that name one remote id, for both ids *)

PairNext ==
    \/ setClientId(LocalId)
    \/ \E id \in Remote : UserJoined(id, NoName)
    \/ \E id \in Remote : UserLeft(id)
    \/ \E id \in Remote : JoinTimer(id)
    \/ \E id \in Remote : ReconnectTimer(id)
    \/ \E id \in Remote : ConnectionFailed(id)
    \/ \E id \in Remote : handleOffer(id)
    \/ \E id \in Remote : handleOfferResumed(id, "answered")
    \/ \E id \in Remote : handleAnswer(id)
    \/ \E id \in Remote : handleAnswerResumed(id, TRUE)
    \/ \E id \in Remote : createOfferResumed(id, TRUE)

SpecPair == Init /\ [][PairNext]_vars

----------------------------------------------------------------------------
(* The mesh over time: what adds "a" to the registry, what removes its link,
   and the timers, each of which fires once it is set *)

LiveNext ==
    \/ setClientId(LocalId)
    \/ UserJoined(Peer, NoName)
    \/ UserLeft(Peer)
    \/ \E ids \in SUBSET {Peer} : ParticipantsList([id \in ids |-> NoName])
    \/ ParticipantsListMalformed([id \in {Peer} |-> NoName], "null-entry")
    \/ JoinTimer(Peer)
    \/ RosterTimer(Peer)
    \/ ReconnectTimer(Peer)
    \/ ConnectionFailed(Peer)
    \/ handleOffer(Peer)
    \/ handleOfferResumed(Peer, "answered")
    \/ \E ok \in BOOLEAN : createOfferResumed(Peer, ok)
    \/ cleanup

\* A timer that was set fires: setTimeout callbacks are never cancelled, and
\* each is enabled for as long as it is pending.
TimersFire ==
    /\ WF_vars(JoinTimer(Peer))
    /\ WF_vars(RosterTimer(Peer))
    /\ WF_vars(ReconnectTimer(Peer))

SpecLive == Init /\ [][LiveNext]_vars /\ TimersFire

----------------------------------------------------------------------------
(* Two managers in one room.  The local manager and the one at "a" run the
   same code, and the relay carries each one's signals to the other.  ends[e]
   holds what the manager at endpoint e keeps for the other endpoint: its
   tables (pc, dc, live, as in Tables), whether its connect timer is pending,
   and how many of its connections have failed.  The newcomer got the other in its participants-list and set the
   500 ms timer; the other got user-joined and set the 1000 ms timer. *)

Endpoints == {LocalId, Peer}
Other(e) == IF e = LocalId THEN Peer ELSE LocalId

\* The tables of the manager at e, and the step that stores them.
TablesAt(e) == [pc |-> ends[e].pc, dc |-> ends[e].dc, live |-> ends[e].live]
StoreAt(e, t, timer) ==
    ends' = [ends EXCEPT ![e] = [pc |-> t.pc, dc |-> t.dc, live |-> t.live, timer |-> timer,
                                 failures |-> ends[e].failures]]

\* Bound: connection failures per endpoint.
MaxFailures == 1

\* What the step at e hands to socket.emit goes to the relay; what it handles
\* was taken from the relay.
Relayed(taken, sent) == relay' = (relay (-) taken) (+) sent
Envelope(from, to, type) == SetToBag({[from |-> from, to |-> to, type |-> type]})

\* The steps below leave the state of the single-manager model alone.
managerVars == <<meshVars, sendVars, recvVars, mediaVars, lastEvent, notified, emitted>>

\* connectTimerAt that gives up once a connection has failed.
connectTimerCappedAt(e) ==
    /\ ends[e].timer
    /\ StoreAt(e, IF ends[e].failures = 0
                  THEN createPeerConnection(TablesAt(e), Other(e), TRUE)
                  ELSE TablesAt(e), FALSE)
    /\ UNCHANGED relay
    /\ UNCHANGED managerVars

\* The connect timer at e fired (callbacks of user-joined, of
\* participants-list and of the failed branch): the link is created unless
\* the table has one.  The other endpoint stays in the registry throughout.
connectTimerAt(e) ==
    /\ ends[e].timer
    /\ StoreAt(e, createPeerConnection(TablesAt(e), Other(e), TRUE), FALSE)
    /\ UNCHANGED relay
    /\ UNCHANGED managerVars

\* createPeerConnection (initiator) at e after its awaits: the offer goes to
\* the relay; on a connection that has taken up the other side's offer
\* meanwhile, setLocalDescription(offer) throws and nothing is sent.
createOfferResumedAt(e) ==
    LET t == TablesAt(e)
        f == Other(e)
    IN  /\ Has(t.pc, f)
        /\ "createOffer" \in t.pc[f].ops
        /\ LET created == t.pc[f].signalingState # "have-remote-offer"
               pcs == EndOp(t.pc, f, "createOffer")
           IN  /\ StoreAt(e, [t EXCEPT !.pc = IF created
                                              THEN [pcs EXCEPT ![f].signalingState = "have-local-offer"]
                                              ELSE pcs],
                          ends[e].timer)
               /\ Relayed(EmptyBag, IF created THEN Envelope(e, f, "offer") ELSE EmptyBag)
        /\ UNCHANGED managerVars

\* handleOffer at e, up to `await pc.setRemoteDescription(offer)`.
handleOfferAt(e) ==
    LET f == Other(e)
        t == createPeerConnection(TablesAt(e), f, FALSE)
    IN  /\ BagIn([from |-> f, to |-> e, type |-> "offer"], relay)
        /\ "setRemoteOffer" \notin t.pc[f].ops
        /\ StoreAt(e, [t EXCEPT !.pc = StartOp(t.pc, f, "setRemoteOffer")], ends[e].timer)
        /\ Relayed(Envelope(f, e, "offer"), EmptyBag)
        /\ UNCHANGED managerVars

\* handleOffer at e after the await.  A connection whose own offer is
\* outstanding rejects the offer: setRemoteDescription throws, the catch block
\* logs, and no answer is sent.  Otherwise the offer is applied and answered.
handleOfferResumedAt(e) ==
    LET t == TablesAt(e)
        f == Other(e)
    IN  /\ Has(t.pc, f)
        /\ "setRemoteOffer" \in t.pc[f].ops
        /\ LET rejected == t.pc[f].signalingState = "have-local-offer"
               pcs == EndOp(t.pc, f, "setRemoteOffer")
           IN  /\ StoreAt(e, [t EXCEPT !.pc = IF rejected
                                              THEN pcs
                                              ELSE [pcs EXCEPT ![f].remoteDescription = TRUE,
                                                               ![f].signalingState = "stable"]],
                          ends[e].timer)
               /\ Relayed(EmptyBag, IF rejected THEN EmptyBag ELSE Envelope(e, f, "answer"))
        /\ UNCHANGED managerVars

\* handleAnswer at e, up to `await pc.setRemoteDescription(answer)`; without a
\* link the answer is dropped.
handleAnswerAt(e) ==
    LET t == TablesAt(e)
        f == Other(e)
    IN  /\ BagIn([from |-> f, to |-> e, type |-> "answer"], relay)
        /\ IF Has(t.pc, f)
           THEN /\ "setRemoteAnswer" \notin t.pc[f].ops
                /\ StoreAt(e, [t EXCEPT !.pc = StartOp(t.pc, f, "setRemoteAnswer")], ends[e].timer)
           ELSE UNCHANGED ends
        /\ Relayed(Envelope(f, e, "answer"), EmptyBag)
        /\ UNCHANGED managerVars

\* handleAnswer at e after the await: the answer is applied while the own
\* offer is outstanding; otherwise setRemoteDescription throws and is logged.
handleAnswerResumedAt(e) ==
    LET t == TablesAt(e)
        f == Other(e)
    IN  /\ Has(t.pc, f)
        /\ "setRemoteAnswer" \in t.pc[f].ops
        /\ LET accepted == t.pc[f].signalingState = "have-local-offer"
               pcs == EndOp(t.pc, f, "setRemoteAnswer")
           IN  StoreAt(e, [t EXCEPT !.pc = IF accepted
                                           THEN [pcs EXCEPT ![f].remoteDescription = TRUE,
                                                            ![f].signalingState = "stable"]
                                           ELSE pcs],
                       ends[e].timer)
        /\ UNCHANGED relay
        /\ UNCHANGED managerVars

\* pc.onconnectionstatechange at e with "failed": the link is removed and
\* closed and the reconnect timer set.  Connectivity checks, and with them a
\* failure, need both descriptions.  (One timer per endpoint is kept: a
\* failure while the connect timer is still pending is left out.)
ConnectionFailedAt(e) ==
    LET t == TablesAt(e)
        f == Other(e)
    IN  /\ Has(t.pc, f)
        /\ t.pc[f].remoteDescription
        /\ ~ends[e].timer
        /\ ends[e].failures < MaxFailures
        /\ ends' = [ends EXCEPT ![e] = [pc |-> ClosePc(t, f).pc, dc |-> ClosePc(t, f).dc,
                                        live |-> ClosePc(t, f).live, timer |-> TRUE,
                                        failures |-> ends[e].failures + 1]]
        /\ UNCHANGED relay
        /\ UNCHANGED managerVars

\* Both managers have just learnt of each other: neither has a link yet and
\* each has its connect timer pending.
GlareInit ==
    /\ clientId = LocalId
    /\ participants = EmptyMap
    /\ peerConnections = EmptyMap
    /\ dataChannels = EmptyMap
    /\ timers = EmptyBag
    /\ liveConnections = [id \in Keys |-> 0]
    /\ transfers = EmptyMap
    /\ wire = [id \in Remote |-> <<>>]
    /\ nextTransfer = 0
    /\ thrown = 0
    /\ inbound = EmptyBag
    /\ filesReceived = <<>>
    /\ localStream = NoStream
    /\ tracks = EmptyMap
    /\ acquiring = EmptyBag
    /\ lastEvent = NoEvent
    /\ notified = EmptyMap
    /\ emitted = NoSignals
    /\ ends = [e \in Endpoints |->
                 [pc |-> EmptyMap, dc |-> EmptyMap, live |-> [x \in Endpoints |-> 0],
                  timer |-> TRUE, failures |-> 0]]
    /\ relay = EmptyBag

GlareNext ==
    \/ \E e \in Endpoints : connectTimerAt(e)
    \/ \E e \in Endpoints : createOfferResumedAt(e)
    \/ \E e \in Endpoints : handleOfferAt(e)
    \/ \E e \in Endpoints : handleOfferResumedAt(e)
    \/ \E e \in Endpoints : handleAnswerAt(e)
    \/ \E e \in Endpoints : handleAnswerResumedAt(e)
    \/ \E e \in Endpoints : ConnectionFailedAt(e)

SpecGlare == GlareInit /\ [][GlareNext]_vars

----------------------------------------------------------------------------
(* File transfer: the send path *)

\* const chunkSize = 16384
chunkSize == 16384

\* Payload sizes (file.size = fileData.byteLength) the page may pass to sendFile.
FileSizes == {0, 1, 16384, 16400, 32769}

\* Bound: sendFile calls per run.
MaxCalls == 1

Min(a, b) == IF a < b THEN a ELSE b

\* A randomUUID that returns the same id at every draw.
UuidFixed(endpoint, n) == <<endpoint, 0>>

\* crypto.randomUUID(): the n-th id drawn at one endpoint; no two draws agree.
Uuid(endpoint, n) == <<endpoint, n>>
\* fileInfo.id before the id is drawn.
NoTransfer == <<>>

\* TotalChunks with Math.floor in place of Math.ceil.
TotalChunksFloor(byteLength) == byteLength \div chunkSize

\* Math.ceil(byteLength / chunkSize)
TotalChunks(byteLength) ==
    IF byteLength % chunkSize = 0
    THEN byteLength \div chunkSize
    ELSE byteLength \div chunkSize + 1

\* fileData.slice(start, end) for chunk i.  A payload byte is named by its offset,
\* so a slice is the interval <<start, end>> of offsets it holds (end excluded).
Slice(byteLength, i) ==
    LET start == i * chunkSize
        end == Min(start + chunkSize, byteLength)
    IN  <<start, end>>

\* The fileInfo object inside the "file-info" envelope.
FileInfo(id, size, sender) ==
    [type |-> "file-info", id |-> id, size |-> size,
     totalChunks |-> TotalChunks(size), sender |-> sender]

\* The chunkData object inside the "file-chunk" envelope of loop iteration i.
FileChunk(fileInfo, i) ==
    [type |-> "file-chunk", fileId |-> fileInfo.id, chunkIndex |-> i,
     totalChunks |-> fileInfo.totalChunks, data |-> Slice(fileInfo.size, i)]

\* readyState of the channel object the table holds (or held) for id.
ReadyState(id) == IF Has(dataChannels, id) THEN dataChannels[id] ELSE "closed"

\* Array.from(this.dataChannels.values()).filter((dc) => dc.readyState === "open")
OpenChannels == {id \in DOMAIN dataChannels : dataChannels[id] = "open"}

\* Broadcast over the channels open now instead of the captured ones.
BroadcastToOpen(w, recipients, envelope) ==
    [id \in Remote |-> IF ReadyState(id) = "open"
                       THEN Append(w[id], envelope) ELSE w[id]]

\* openChannels.forEach(dc => dc.send(...)): a channel that is not open gets
\* nothing (the chunk loop tests readyState; the file-info send throws and the
\* throw is caught).
Broadcast(w, recipients, envelope) ==
    [id \in Remote |-> IF id \in recipients /\ ReadyState(id) = "open"
                       THEN Append(w[id], envelope) ELSE w[id]]

Calls == Cardinality(DOMAIN transfers) + thrown

\* sendFile up to `await file.arrayBuffer()`, as one of at most limit calls:
\* the open channels are captured, and with none of them the call throws.
sendFileCall(limit, size, senderId) ==
    /\ Ready
    /\ Calls < limit
    /\ IF OpenChannels = {}
       THEN /\ thrown' = thrown + 1
            /\ UNCHANGED transfers
       ELSE /\ transfers' = Put(transfers, Calls + 1,
                                [pos |-> "reading", size |-> size, sender |-> senderId,
                                 openChannels |-> OpenChannels, id |-> NoTransfer, i |-> 0])
            /\ UNCHANGED thrown
    /\ UNCHANGED <<wire, nextTransfer, meshVars, recvVars, pairVars, mediaVars>>
    /\ Quiet
    /\ lastEvent' = NoEvent

\* sendFile without the `openChannels.length === 0` test.
sendFileUnchecked(size, senderId) ==
    /\ Ready
    /\ Calls < MaxCalls
    /\ transfers' = Put(transfers, Calls + 1,
                        [pos |-> "reading", size |-> size, sender |-> senderId,
                         openChannels |-> OpenChannels, id |-> NoTransfer, i |-> 0])
    /\ UNCHANGED <<thrown, wire, nextTransfer, meshVars, recvVars, pairVars, mediaVars>>
    /\ Quiet
    /\ lastEvent' = NoEvent

\* sendFile up to `await file.arrayBuffer()`, within the bound on calls.
sendFile(size, senderId) == sendFileCall(MaxCalls, size, senderId)

\* sendFileResumed that goes on only while some channel is open.
sendFileResumedWaiting(c) ==
    /\ Has(transfers, c)
    /\ transfers[c].pos = "reading"
    /\ OpenChannels # {}
    /\ LET t == transfers[c]
           fileInfo == FileInfo(Uuid(LocalId, nextTransfer + 1), t.size, t.sender)
           w == Broadcast(wire, t.openChannels, fileInfo)
       IN  /\ nextTransfer' = nextTransfer + 1
           /\ IF fileInfo.totalChunks = 0
              THEN /\ wire' = w
                   /\ transfers' = [transfers EXCEPT ![c].pos = "done", ![c].id = fileInfo.id]
              ELSE /\ wire' = Broadcast(w, t.openChannels, FileChunk(fileInfo, 0))
                   /\ transfers' = [transfers EXCEPT ![c].pos = "waiting",
                                                      ![c].id = fileInfo.id, ![c].i = 1]
    /\ UNCHANGED <<thrown, meshVars, recvVars, pairVars, mediaVars>>
    /\ Quiet
    /\ lastEvent' = NoEvent

\* sendFile after arrayBuffer() resolved: the transfer id is allocated, the
\* file-info is broadcast and the loop runs to its first inter-chunk await
\* (or falls through at once for an empty payload).
sendFileResumed(c) ==
    /\ Has(transfers, c)
    /\ transfers[c].pos = "reading"
    /\ LET t == transfers[c]
           fileInfo == FileInfo(Uuid(LocalId, nextTransfer + 1), t.size, t.sender)
           w == Broadcast(wire, t.openChannels, fileInfo)
       IN  /\ nextTransfer' = nextTransfer + 1
           /\ IF fileInfo.totalChunks = 0
              THEN /\ wire' = w
                   /\ transfers' = [transfers EXCEPT ![c].pos = "done", ![c].id = fileInfo.id]
              ELSE /\ wire' = Broadcast(w, t.openChannels, FileChunk(fileInfo, 0))
                   /\ transfers' = [transfers EXCEPT ![c].pos = "waiting",
                                                      ![c].id = fileInfo.id, ![c].i = 1]
    /\ UNCHANGED <<thrown, meshVars, recvVars, pairVars, mediaVars>>
    /\ Quiet
    /\ lastEvent' = NoEvent

\* chunkTimer that ends the loop when a captured channel is no longer open.
chunkTimerAborting(c) ==
    /\ Has(transfers, c)
    /\ transfers[c].pos = "waiting"
    /\ LET t == transfers[c]
           fileInfo == FileInfo(t.id, t.size, t.sender)
       IN  IF t.i < fileInfo.totalChunks /\ t.openChannels \subseteq OpenChannels
           THEN /\ wire' = Broadcast(wire, t.openChannels, FileChunk(fileInfo, t.i))
                /\ transfers' = [transfers EXCEPT ![c].i = t.i + 1]
           ELSE /\ transfers' = [transfers EXCEPT ![c].pos = "done"]
                /\ UNCHANGED wire
    /\ UNCHANGED <<nextTransfer, thrown, meshVars, recvVars, pairVars, mediaVars>>
    /\ Quiet
    /\ lastEvent' = NoEvent

\* The 10 ms inter-chunk timer fired: i++ and either the next chunk goes out or
\* the loop ends.
chunkTimer(c) ==
    /\ Has(transfers, c)
    /\ transfers[c].pos = "waiting"
    /\ LET t == transfers[c]
           fileInfo == FileInfo(t.id, t.size, t.sender)
       IN  IF t.i < fileInfo.totalChunks
           THEN /\ wire' = Broadcast(wire, t.openChannels, FileChunk(fileInfo, t.i))
                /\ transfers' = [transfers EXCEPT ![c].i = t.i + 1]
           ELSE /\ transfers' = [transfers EXCEPT ![c].pos = "done"]
                /\ UNCHANGED wire
    /\ UNCHANGED <<nextTransfer, thrown, meshVars, recvVars, pairVars, mediaVars>>
    /\ Quiet
    /\ lastEvent' = NoEvent

\* A connection whose negotiation has completed.
Established ==
    [role |-> "Initiator", signalingState |-> "stable", remoteDescription |-> TRUE,
     ops |-> {}, arrived |-> 0, applied |-> <<>>, senders |-> {}]

\* The manager in a room with some peers connected: each remote id has an
\* established connection with a channel that is connecting or open, or a closed
\* channel left behind by a failed connection, or nothing at all.
SendInit ==
    /\ clientId = LocalId
    /\ \E cfg \in [Remote -> {"none", "connecting", "open", "closed"}] :
         LET linked == {id \in Remote : cfg[id] \in {"connecting", "open"}}
         IN  /\ participants = [id \in linked |-> NewParticipant(id, NoName)]
             /\ peerConnections = [id \in linked |-> Established]
             /\ dataChannels = [id \in {x \in Remote : cfg[x] # "none"} |-> cfg[id]]
             /\ liveConnections = [id \in Keys |-> IF id \in linked THEN 1 ELSE 0]
    /\ timers = EmptyBag
    /\ transfers = EmptyMap
    /\ wire = [id \in Remote |-> <<>>]
    /\ nextTransfer = 0
    /\ thrown = 0
    /\ inbound = EmptyBag
    /\ filesReceived = <<>>
    /\ localStream = NoStream
    /\ tracks = EmptyMap
    /\ acquiring = EmptyBag
    /\ lastEvent = NoEvent
    /\ notified = EmptyMap
    /\ emitted = NoSignals
    /\ ends = EmptyMap
    /\ relay = EmptyBag

SendNext ==
    \/ \E size \in FileSizes : sendFile(size, LocalId)
    \/ \E c \in 1..MaxCalls : sendFileResumed(c)
    \/ \E c \in 1..MaxCalls : chunkTimer(c)
    \/ \E id \in Remote : DataChannelOpened(id)
    \/ \E id \in Remote : DataChannelClosed(id)

SpecSend == SendInit /\ [][SendNext]_vars

\* The call numbers of two sendFile calls whose loops run side by side.
Concurrent == {1, 2}

\* Two sendFile calls, each started at any moment of the other, with channels
\* opening and closing meanwhile.
TwoSendsNext ==
    \/ \E size \in FileSizes : sendFileCall(Cardinality(Concurrent), size, LocalId)
    \/ \E c \in Concurrent : sendFileResumed(c)
    \/ \E c \in Concurrent : chunkTimer(c)
    \/ \E id \in Remote : DataChannelOpened(id)
    \/ \E id \in Remote : DataChannelClosed(id)

SpecTwoSends == SendInit /\ [][TwoSendsNext]_vars

\* Payload sizes of the calls followed to their end: no chunk, and two chunks.
LiveSizes == {0, 16400}

\* sendFile calls while the channels they captured go away: the remote side
\* closes a channel, Peer leaves, the connection to Peer fails, the page calls
\* cleanup.  No link is created, so the channel an id names is the one captured.
SendLiveNext ==
    \/ \E size \in LiveSizes : sendFile(size, LocalId)
    \/ \E c \in 1..MaxCalls : sendFileResumed(c)
    \/ \E c \in 1..MaxCalls : chunkTimer(c)
    \/ \E id \in Remote : DataChannelClosed(id)
    \/ UserLeft(Peer)
    \/ ConnectionFailed(Peer)
    \/ cleanup

\* The promise of file.arrayBuffer() settles and the 10 ms timer of
\* `await new Promise(resolve => setTimeout(resolve, 10))` fires: neither can
\* be cancelled, and each continuation is enabled for as long as it is pending.
LoopRuns ==
    \A c \in 1..MaxCalls :
        /\ WF_vars(sendFileResumed(c))
        /\ WF_vars(chunkTimer(c))

SpecSendLive == SendInit /\ [][SendLiveNext]_vars /\ LoopRuns

----------------------------------------------------------------------------
(* Local media: capture calls on a manager in a room *)

\* The capture calls of the page's toggles, their continuations, an inbound
\* offer that creates a link while a stream may be current, and cleanup, on a
\* manager in a room with no capture started (SendInit).
MediaNext ==
    \/ startLocalAudio
    \/ startLocalVideo
    \/ \E kind \in Kinds : startLocalAcquired(kind)
    \/ \E kind \in Kinds : startLocalDenied(kind)
    \/ stopLocalAudio
    \/ stopLocalVideo
    \/ handleOffer(Peer)
    \/ handleOfferResumed(Peer, "answered")
    \/ cleanup

SpecMedia == SendInit /\ [][MediaNext]_vars

\* The second remote id, whose user-joined makes this manager the initiator.
Joiner == "b"

\* The capture calls and their continuations together with both ways a link is
\* created: the inbound offer of Peer (responder) and the join timer of Joiner
\* (initiator); cleanup closes the links so that they can be created again.
TracksNext ==
    \/ startLocalAudio
    \/ startLocalVideo
    \/ \E kind \in Kinds : startLocalAcquired(kind)
    \/ \E kind \in Kinds : startLocalDenied(kind)
    \/ stopLocalAudio
    \/ stopLocalVideo
    \/ handleOffer(Peer)
    \/ handleOfferResumed(Peer, "answered")
    \/ UserJoined(Joiner, NoName)
    \/ JoinTimer(Joiner)
    \/ cleanup

SpecTracks == SendInit /\ [][TracksNext]_vars

----------------------------------------------------------------------------
(* File transfer: the receive path *)

\* Bound: deliveries of one envelope (1 = exactly once, more = redelivery).
MaxDeliveries == 2

\* What a peer running sendFile for a payload of `size` bytes puts on the channel.
RemoteFileInfo(size) == FileInfo(Uuid(Peer, 1), size, Peer)
RemoteChunks(size) ==
    {FileChunk(RemoteFileInfo(size), i) : i \in 0..(TotalChunks(size) - 1)}
RemoteEnvelopes(size) == {RemoteFileInfo(size)} \cup RemoteChunks(size)

\* event.data that JSON.parse rejects.
Malformed == [type |-> "malformed"]

\* The MediaFile value onFileReceived takes.
MediaFile(fileInfo, data) ==
    [id |-> fileInfo.id, size |-> fileInfo.size, data |-> data, sender |-> fileInfo.sender]

\* handleDataChannelMessage that tests "every slot filled" when the file-info
\* arrives, and so completes an empty file at once.
handleDataChannelMessageEager(files, message) ==
    IF message.type = "file-info" /\ message.totalChunks = 0
    THEN Append(files, MediaFile(message, <<0, 0>>))
    ELSE files

\* handleDataChannelMessage: the envelope is parsed and its arrival logged in
\* both branches; a parse error is caught and logged.  Returns the list of
\* files handed to onFileReceived.
handleDataChannelMessage(files, message) ==
    CASE message.type = "file-info" -> files
      [] message.type = "file-chunk" -> files
      [] OTHER -> files

\* dataChannel.onmessage on the channel of remote id `from`.
DataChannelMessage(from, message) ==
    /\ ReadyState(from) = "open"
    /\ CopiesIn(message, inbound) < MaxDeliveries
    /\ inbound' = inbound (+) SetToBag({message})
    /\ filesReceived' = handleDataChannelMessage(filesReceived, message)
    /\ UNCHANGED <<meshVars, sendVars, mediaVars, pairVars>>
    /\ Quiet
    /\ lastEvent' = NoEvent

\* One remote peer sends one file per run: every envelope delivered so far belongs
\* to the same payload size.
SameFile(size) == \A m \in BagToSet(inbound) : m \in RemoteEnvelopes(size) \cup {Malformed}

RecvNext ==
    \/ \E id \in Remote, size \in FileSizes :
         /\ SameFile(size)
         /\ \E m \in RemoteEnvelopes(size) : DataChannelMessage(id, m)
    \/ \E id \in Remote : DataChannelMessage(id, Malformed)

SpecRecv == SendInit /\ [][RecvNext]_vars

----------------------------------------------------------------------------
(* Properties of the connection mesh (Spec, SpecLink) *)

Pending(kind, id) == CopiesIn(Timer(kind, id), timers)

\* C1: for every remote id there is at most one connection that was created and
\* not closed, and it is the one the peer-connection table holds: whichever of
\* the join timer, the roster timer and an inbound offer comes first creates it
\* and every later attempt creates nothing.
OneLinkPerRemote ==
    \A id \in Remote :
        liveConnections[id] = IF Has(peerConnections, id) THEN 1 ELSE 0

\* C1 witness: a link to "a" exists while a join timer and a roster timer for
\* "a" are both still to fire.
OneLinkPerRemoteWitness ==
    /\ Has(peerConnections, "a")
    /\ liveConnections["a"] = 1
    /\ Pending("join", "a") >= 1
    /\ Pending("roster", "a") >= 1

\* C2: the links never outnumber the participants in the registry.  The claim
\* is about join, leave and roster events and the timers they set, which create
\* Initiator links only, so the links an inbound offer created are not counted.
LinksWithinRegistry ==
    Cardinality({id \in DOMAIN peerConnections : peerConnections[id].role = "Initiator"})
        <= Cardinality(DOMAIN participants)

\* C3: once the remote description is set on a link, every candidate that
\* arrived for that link has been handed to addIceCandidate, in arrival order.
CandidatesNotLost ==
    \A id \in DOMAIN peerConnections :
        peerConnections[id].remoteDescription =>
            peerConnections[id].applied = [k \in 1..peerConnections[id].arrived |-> k]

\* A step in which a reconnect timer of id fired.
ReconnectFired(id) == Pending("reconnect", id)' < Pending("reconnect", id)

\* C4: a reconnect timer that fires while its participant is not in the registry
\* creates no link for that id.
NoReconnectForAbsent ==
    [][\A id \in Remote :
          (ReconnectFired(id) /\ ~Has(participants, id)) =>
              (Has(peerConnections', id) <=> Has(peerConnections, id))
               /\ liveConnections'[id] = liveConnections[id]]_vars

\* C4 witness: a reconnect timer is pending for "a", whose connection failed and
\* who is not in the registry.
NoReconnectForAbsentWitness ==
    /\ Pending("reconnect", "a") >= 1
    /\ ~Has(participants, "a")
    /\ ~Has(peerConnections, "a")

\* A step in which the connection to id failed with id in the registry: the link
\* goes and the participant stays (user-left and cleanup remove both).
FailedWhilePresent(id) ==
    /\ Has(peerConnections, id) /\ ~Has(peerConnections', id)
    /\ Has(participants, id) /\ Has(participants', id)

\* C5: a failure with the participant present schedules exactly one timer, a
\* reconnect timer for that id with the 3000 ms backoff; and a reconnect timer
\* that fires with the participant present and no link creates exactly one link,
\* with role Initiator.
OneReconnectForPresent ==
    [][\A id \in Remote :
          /\ FailedWhilePresent(id) =>
                /\ Pending("reconnect", id)' = Pending("reconnect", id) + 1
                /\ BagCardinality(timers') = BagCardinality(timers) + 1
                /\ \A t \in BagToSet(timers') : t.kind = "reconnect" => t.delay = 3000
          /\ (ReconnectFired(id) /\ Has(participants, id) /\ ~Has(peerConnections, id)) =>
                /\ Has(peerConnections', id)
                /\ peerConnections'[id].role = "Initiator"
                /\ liveConnections'[id] = 1]_vars

\* C5 witness: the connection to "a" failed, "a" is in the registry and the
\* reconnect timer is pending.
OneReconnectForPresentWitness ==
    /\ Pending("reconnect", "a") = 1
    /\ Has(participants, "a")
    /\ ~Has(peerConnections, "a")
    /\ Has(dataChannels, "a") /\ dataChannels["a"] = "closed"

----------------------------------------------------------------------------
(* Properties of the send path (SpecSend) *)

\* C6: a sendFile call made with no open channel throws and does nothing else:
\* no transfer starts, no id is drawn, nothing is sent, no table changes.
NoSendWithoutOpenChannel ==
    [][(Calls' = Calls + 1 /\ OpenChannels = {}) =>
          /\ thrown' = thrown + 1
          /\ transfers' = transfers
          /\ nextTransfer' = nextTransfer
          /\ wire' = wire
          /\ dataChannels' = dataChannels
          /\ peerConnections' = peerConnections
          /\ participants' = participants]_vars

\* C6 witness: a call has thrown, with no channel open and nothing sent.
NoSendWithoutOpenChannelWitness ==
    /\ thrown = 1
    /\ OpenChannels = {}
    /\ nextTransfer = 0
    /\ \A id \in Remote : wire[id] = <<>>

\* The payload size of the transfer that drew fileId.
SizeOf(fileId) == transfers[CHOOSE c \in DOMAIN transfers : transfers[c].id = fileId].size

\* The file-chunk envelopes of one transfer sent to id, in sending order.
ChunksOn(id, fileId) ==
    SelectSeq(wire[id], LAMBDA e : e.type = "file-chunk" /\ e.fileId = fileId)

\* C7: every file-info announces totalChunks = ceil(size / 16384); every
\* file-chunk i covers the bytes from i * 16384 up to min((i + 1) * 16384, size),
\* so all but the last hold 16384 bytes; a recipient sent all the chunks has
\* them adjacent from byte 0 to byte size; 16400 bytes give 2 chunks of 16384
\* and 16 bytes; 0 bytes give totalChunks = 0 and no chunk.
ChunkingExact ==
    \A id \in Remote :
        /\ \A k \in 1..Len(wire[id]) :
             LET e == wire[id][k]
             IN  /\ e.type = "file-info" =>
                      /\ e.totalChunks >= 0
                      /\ e.totalChunks * 16384 >= e.size
                      /\ (e.totalChunks - 1) * 16384 < e.size
                      /\ e.size = 16400 => e.totalChunks = 2
                      /\ e.size = 0 => e.totalChunks = 0
                 /\ e.type = "file-chunk" =>
                      LET n == SizeOf(e.fileId)
                          from == e.data[1]
                          to == e.data[2]
                      IN  /\ n > 0
                          /\ e.chunkIndex >= 0 /\ e.chunkIndex < e.totalChunks
                          /\ e.totalChunks * 16384 >= n
                          /\ (e.totalChunks - 1) * 16384 < n
                          /\ from = e.chunkIndex * 16384
                          /\ to = IF (e.chunkIndex + 1) * 16384 < n
                                  THEN (e.chunkIndex + 1) * 16384 ELSE n
                          /\ e.chunkIndex < e.totalChunks - 1 => to - from = 16384
                          /\ n = 16400 =>
                                to - from = IF e.chunkIndex = 0 THEN 16384 ELSE 16
        /\ \A c \in DOMAIN transfers :
             LET cs == ChunksOn(id, transfers[c].id)
             IN  (Len(cs) > 0 /\ Len(cs) = cs[1].totalChunks) =>
                    /\ cs[1].data[1] = 0
                    /\ \A j \in 1..(Len(cs) - 1) : cs[j].data[2] = cs[j + 1].data[1]
                    /\ cs[Len(cs)].data[2] = transfers[c].size

\* C7 witness: a finished 16400-byte transfer whose two chunks, of 16384 and 16
\* bytes, went to "a" after the file-info.
ChunkingExactWitness ==
    \E c \in DOMAIN transfers :
        /\ transfers[c].pos = "done"
        /\ transfers[c].size = 16400
        /\ Len(wire["a"]) = 3
        /\ wire["a"][1].type = "file-info" /\ wire["a"][1].totalChunks = 2
        /\ wire["a"][2].data = <<0, 16384>>
        /\ wire["a"][3].data = <<16384, 16400>>

----------------------------------------------------------------------------
(* Properties of the receive path (SpecRecv) *)

Delivered(m) == CopiesIn(m, inbound)

\* C8: when the file-info of a payload and each of its chunks (at least one) was
\* delivered exactly once, in whatever order, a file with all the payload's
\* bytes has been handed to onFileReceived.
ReassemblyIdentical ==
    \A size \in FileSizes :
        ( /\ TotalChunks(size) >= 1
          /\ Delivered(RemoteFileInfo(size)) = 1
          /\ \A ch \in RemoteChunks(size) : Delivered(ch) = 1 ) =>
            \E k \in 1..Len(filesReceived) :
                /\ filesReceived[k].id = RemoteFileInfo(size).id
                /\ filesReceived[k].data = <<0, size>>

\* C9: once the file-info and every chunk slot of a transfer have arrived,
\* onFileReceived has been invoked exactly once for it, however often chunks
\* are delivered again.
CompletedExactlyOnce ==
    \A size \in FileSizes :
        ( /\ TotalChunks(size) >= 1
          /\ Delivered(RemoteFileInfo(size)) >= 1
          /\ \A ch \in RemoteChunks(size) : Delivered(ch) >= 1 ) =>
            Cardinality({k \in 1..Len(filesReceived) :
                            filesReceived[k].id = RemoteFileInfo(size).id}) = 1

\* C10: a file-info none of whose chunks has arrived has not triggered
\* onFileReceived.
NoCompletionWithoutChunk ==
    \A size \in FileSizes :
        ( /\ Delivered(RemoteFileInfo(size)) >= 1
          /\ \A ch \in RemoteChunks(size) : Delivered(ch) = 0 ) =>
            \A k \in 1..Len(filesReceived) :
                filesReceived[k].id # RemoteFileInfo(size).id

\* C10 witness: the file-info of an empty payload has arrived, no chunk has, and
\* no file was handed over.
NoCompletionWithoutChunkWitness ==
    /\ Delivered(RemoteFileInfo(0)) = 1
    /\ \A m \in BagToSet(inbound) : m.type = "file-info"
    /\ filesReceived = <<>>

----------------------------------------------------------------------------
(* Properties of the registry and of teardown (Spec, SpecLink) *)

\* C11: once the client id is set, the registry has no entry for the local id
\* and no connect timer targets it: a snapshot that lists the local id skips it
\* and a user-joined that names it is ignored.
NoLocalParticipant ==
    Ready =>
        /\ ~Has(participants, clientId)
        /\ \A t \in BagToSet(timers) : t.id # clientId

\* C11 witness: a snapshot listing the local id and "a" was just applied: "a" is
\* in the registry with its roster timer pending.
NoLocalParticipantWitness ==
    /\ lastEvent = Event("participants-list", {Peer, LocalId})
    /\ Has(participants, Peer)
    /\ Pending("roster", Peer) = 1

\* C12: when the user-left handler for an id has returned, whatever state the
\* link was in, the id has no entry in the peer-connection table, none in the
\* data-channel table and none in the registry, and its connection is closed.
LeftIsGone ==
    \A id \in Remote :
        lastEvent = Event("user-left", id) =>
            /\ ~Has(peerConnections, id)
            /\ ~Has(dataChannels, id)
            /\ ~Has(participants, id)
            /\ liveConnections[id] = 0

\* C12 witness: user-left for "a" was just handled while a connect timer that
\* "a"'s arrival set is still pending.
LeftIsGoneWitness ==
    /\ lastEvent = Event("user-left", Peer)
    /\ Pending("join", Peer) + Pending("roster", Peer) >= 1
    /\ ~Has(participants, Peer)

\* A step in which a timer of the given kind for id fired.
TimerFired(kind, id) == Pending(kind, id)' < Pending(kind, id)

\* The last step tore id down: user-left for id, or cleanup.
TornDown(id) ==
    \/ lastEvent = Event("user-left", id)
    \/ lastEvent = Event("cleanup", clientId)

\* C13: a join, roster or reconnect timer for an id that fires right after the
\* id was torn down (so the id was not added again) creates no link for it.
TimersAfterTeardownIdle ==
    [][\A id \in Remote :
          (TornDown(id) /\ \E kind \in {"join", "roster", "reconnect"} : TimerFired(kind, id)) =>
              ~Has(peerConnections', id)]_vars

----------------------------------------------------------------------------
(* Properties of link failure (SpecLink) *)

\* C18: every data-channel entry belongs to an id that has an entry in the
\* peer-connection table: what removes a link removes its channel entry with it.
ChannelsBelongToLinks ==
    DOMAIN dataChannels \subseteq DOMAIN peerConnections

\* A step in which an await of pc.setRemoteDescription for id ended with the
\* link still in the table.
DescriptionSettled(id) ==
    \E op \in {"setRemoteOffer", "setRemoteAnswer"} :
        /\ Has(peerConnections, id) /\ op \in peerConnections[id].ops
        /\ Has(peerConnections', id) /\ op \notin peerConnections'[id].ops

\* C19: a link is never left in the table without a remote description when
\* applying an inbound offer or answer to it has ended: either the description
\* was applied or the link was closed and removed.
RejectedDescriptionClosesLink ==
    [][\A id \in Remote :
          DescriptionSettled(id) => peerConnections'[id].remoteDescription]_vars

\* C20: a connection-state change to "disconnected" changes nothing: the link
\* stays in the peer-connection table as it was, its data channel stays
\* registered, the connection is not closed, no timer is set and the registry
\* is untouched.
DisconnectedChangesNothing ==
    [][\A id \in Remote :
          lastEvent' = Event("disconnected", id) =>
              /\ Has(peerConnections, id)
              /\ peerConnections' = peerConnections
              /\ dataChannels' = dataChannels
              /\ liveConnections' = liveConnections
              /\ timers' = timers
              /\ participants' = participants]_vars

\* C20 witness: the connection to "a" was just reported disconnected; the link
\* is in the table, not closed, its channel is registered and open, and no
\* reconnect timer is pending.
DisconnectedChangesNothingWitness ==
    /\ lastEvent = Event("disconnected", Peer)
    /\ Has(peerConnections, Peer)
    /\ liveConnections[Peer] = 1
    /\ Has(dataChannels, Peer) /\ dataChannels[Peer] = "open"
    /\ Pending("reconnect", Peer) = 0

----------------------------------------------------------------------------
(* Properties of local media and of cleanup (SpecMedia) *)

\* The tracks that were captured and not stopped.
LiveTracks == {t \in DOMAIN tracks : tracks[t].readyState = "live"}

\* C14: when cleanup() returns, whatever the state before, the three tables are
\* empty, every connection is closed, no channel is open, the local stream is
\* null and its tracks are stopped; a cleanup() that follows a cleanup()
\* changes nothing.
CleanupLeavesNothing ==
    [][lastEvent' = Event("cleanup", clientId) =>
          /\ peerConnections' = EmptyMap
          /\ dataChannels' = EmptyMap
          /\ participants' = EmptyMap
          /\ \A id \in Remote : liveConnections'[id] = 0 /\ ReadyState(id)' = "closed"
          /\ localStream' = NoStream
          /\ \A t \in getTracks(localStream) : tracks'[t].readyState = "ended"
          /\ lastEvent = Event("cleanup", clientId) =>
                UNCHANGED <<meshVars, sendVars, recvVars, mediaVars>>]_vars

\* C14 witness: cleanup() has just returned; a track that was captured is
\* stopped, a capture call is still suspended, and everything is empty.
CleanupLeavesNothingWitness ==
    /\ lastEvent = Event("cleanup", clientId)
    /\ \E t \in DOMAIN tracks : tracks[t].readyState = "ended"
    /\ acquiring # EmptyBag
    /\ peerConnections = EmptyMap /\ dataChannels = EmptyMap /\ participants = EmptyMap
    /\ localStream = NoStream

\* C15: a startLocalAudio / startLocalVideo call whose device acquisition
\* failed settles as an error for its caller, and the step changes neither the
\* local stream nor any track nor any connection's tracks.
DeviceFailureSurfaced ==
    [][\A kind \in Kinds, settled \in Settlements :
          lastEvent' = StartResult(kind, "denied", settled) =>
              /\ settled = "throws"
              /\ localStream' = localStream
              /\ tracks' = tracks
              /\ peerConnections' = peerConnections]_vars

\* C16: a stopLocalAudio / stopLocalVideo step stops the stream's tracks of
\* that kind and no other track; afterwards the stream holds exactly its tracks
\* of the other kind, still live, or is null when it had none; with no stream
\* the step changes no media state.  No connection is touched.
StopRemovesOnlyThatKind ==
    [][\A kind \in Kinds :
          lastEvent' = Event("stopLocal", kind) =>
              LET mine == TracksOf(localStream, kind)
                  others == TracksOf(localStream, OtherKind(kind))
              IN  /\ localStream = NoStream => UNCHANGED <<localStream, tracks>>
                  /\ (localStream # NoStream /\ others # {}) =>
                        localStream' = MediaStream(others)
                  /\ (localStream # NoStream /\ others = {}) => localStream' = NoStream
                  /\ \A t \in mine : tracks'[t].readyState = "ended"
                  /\ \A t \in DOMAIN tracks \ mine : tracks'[t] = tracks[t]
                  /\ \A t \in others : tracks'[t].readyState = "live"
                  /\ DOMAIN tracks' = DOMAIN tracks
                  /\ UNCHANGED <<meshVars, acquiring>>]_vars

\* C16 witness: stopLocalAudio has just run on a stream of an audio and a video
\* track: the audio track is stopped and the stream is the live video track.
StopRemovesOnlyThatKindWitness ==
    /\ lastEvent = Event("stopLocal", "audio")
    /\ localStream # NoStream
    /\ \E a, v \in DOMAIN tracks :
         /\ tracks[a] = [kind |-> "audio", readyState |-> "ended"]
         /\ tracks[v] = [kind |-> "video", readyState |-> "live"]
         /\ localStream = MediaStream({v})

\* The media state a sequence of start and stop calls leaves: the tracks that
\* are live are exactly the tracks of the one current stream, at most one of
\* each kind, and a stream is never empty.
MediaConsistent ==
    /\ LiveTracks = getTracks(localStream)
    /\ \A kind \in Kinds : Cardinality(TracksOf(localStream, kind)) <= 1
    /\ localStream # NoStream => getTracks(localStream) # {}

\* C17: however start and stop calls overlap, a run is a sequential execution
\* of the calls in the order in which they take effect: every step leaves a
\* consistent media state with one current stream at most; a start that
\* acquired its device leaves its own new track as the only live track of its
\* kind, a stop leaves no live track of its kind, and neither touches the
\* other kind.
MediaCallsSerial ==
    [][/\ MediaConsistent'
       /\ \A kind \in Kinds :
            /\ lastEvent' = StartResult(kind, "acquired", "stream") =>
                  /\ TracksOf(localStream, kind)' \cap DOMAIN tracks = {}
                  /\ Cardinality(TracksOf(localStream, kind)') = 1
                  /\ TracksOf(localStream, OtherKind(kind))' = TracksOf(localStream, OtherKind(kind))
            /\ lastEvent' = Event("stopLocal", kind) =>
                  /\ TracksOf(localStream, kind)' = {}
                  /\ TracksOf(localStream, OtherKind(kind))' = TracksOf(localStream, OtherKind(kind))]_vars

\* C17 witness: stopLocalAudio has just run while a startLocalAudio call is
\* suspended in getUserMedia: the earlier audio track is stopped and there is
\* no stream.
MediaCallsSerialWitness ==
    /\ lastEvent = Event("stopLocal", "audio")
    /\ BagIn("audio", acquiring)
    /\ \E t \in DOMAIN tracks : tracks[t] = [kind |-> "audio", readyState |-> "ended"]
    /\ localStream = NoStream

----------------------------------------------------------------------------
(* Properties of the relay's events (SpecRelay, Spec, SpecLink) *)


\* C21: no relay handler ends in an uncaught exception, whatever the payload,
\* and nothing is entered in the registry for a payload entry without clientId.
MalformedNeverThrows ==
    /\ lastEvent # NoEvent => lastEvent[1] # "uncaught"
    /\ ~Has(participants, Undefined)


\* C22: after a participants-list snapshot that omits a remote id, that id has
\* no link in the peer-connection table: the snapshot confirms that the
\* participant left, so its link is closed and removed.
SnapshotClosesAbsent ==
    \A ids \in SUBSET AnyId : \A id \in Remote \ ids :
        lastEvent = Event("participants-list", ids) => ~Has(peerConnections, id)

\* C23: after a participants-list snapshot the registry holds exactly the
\* snapshot's valid entries other than the local id, nothing from before, and no
\* participant has a remote stream attached; after a snapshot that is no array
\* the registry is empty.
SnapshotReplacesRegistry ==
    /\ \A ids \in SUBSET AnyId :
          lastEvent \in {Event("participants-list", ids),
                         Event("malformed-participants-list", ids)} =>
              /\ DOMAIN participants = ids \ {clientId}
              /\ \A id \in DOMAIN participants : participants[id].stream = "none"
    /\ lastEvent = Uncaught("participants-list", "not-array") => participants = EmptyMap

\* C23 witness: a snapshot that lists only the local id was just applied while
\* "a", who had joined, has an established link and its join timer still pending.
SnapshotReplacesRegistryWitness ==
    /\ lastEvent = Event("participants-list", {LocalId})
    /\ Pending("join", Peer) >= 1
    /\ Has(peerConnections, Peer) /\ peerConnections[Peer].remoteDescription
    /\ participants = EmptyMap

\* C24: a participant has a remote stream attached only if a link for its id
\* is in the peer-connection table: whatever removes the link (the "failed"
\* transition included) or reconciles the roster clears the stream.
StreamOnlyWithLink ==
    \A id \in DOMAIN participants :
        participants[id].stream # "none" => Has(peerConnections, id)

\* C25: every operation that changes the registry notifies the subscriber, so
\* between handlers the registry last handed to onParticipantUpdate has the same
\* participants as the registry.
SubscriberInStep ==
    DOMAIN notified = DOMAIN participants

----------------------------------------------------------------------------
(* Properties of signalling (SpecSignal) *)

\* A step in which handleOffer took up an offer from id: the await of
\* setRemoteDescription(offer) begins.
OfferTaken(id) ==
    /\ Has(peerConnections, id) => "setRemoteOffer" \notin peerConnections[id].ops
    /\ Has(peerConnections', id) /\ "setRemoteOffer" \in peerConnections'[id].ops

\* A step in which handleOffer for id went on after that await, to its end.
OfferSettled(id) ==
    /\ Has(peerConnections, id) /\ "setRemoteOffer" \in peerConnections[id].ops
    /\ Has(peerConnections', id) /\ "setRemoteOffer" \notin peerConnections'[id].ops

\* C26: an offer from an id without a link creates exactly one link for it,
\* with role Responder, no local data channel and no local offer; once the
\* browser has applied the offer and made the answer, the link has its remote
\* description and exactly one answer, addressed to that id, is relayed (none
\* otherwise).  An offer from an id with a link reuses the link.
OfferMakesResponder ==
    [][\A id \in Remote :
          /\ (OfferTaken(id) /\ ~Has(peerConnections, id)) =>
                /\ liveConnections[id] = 0 /\ liveConnections'[id] = 1
                /\ DOMAIN peerConnections' = DOMAIN peerConnections \cup {id}
                /\ peerConnections'[id].role = "Responder"
                /\ ~peerConnections'[id].remoteDescription
                /\ "createOffer" \notin peerConnections'[id].ops
                /\ dataChannels' = dataChannels
                /\ emitted' = NoSignals
          /\ (OfferTaken(id) /\ Has(peerConnections, id)) =>
                /\ liveConnections' = liveConnections
                /\ DOMAIN peerConnections' = DOMAIN peerConnections
                /\ peerConnections'[id].role = peerConnections[id].role
                /\ dataChannels' = dataChannels
                /\ emitted' = NoSignals
          /\ OfferSettled(id) =>
                /\ emitted' \in {NoSignals, <<Signal(id, "answer")>>}
                /\ emitted' # NoSignals => peerConnections'[id].remoteDescription
                /\ (/\ ~peerConnections[id].remoteDescription
                    /\ peerConnections'[id].remoteDescription
                    /\ peerConnections'[id].signalingState = "stable") =>
                       emitted' = <<Signal(id, "answer")>>
                /\ liveConnections' = liveConnections
                /\ DOMAIN peerConnections' = DOMAIN peerConnections]_vars

\* C26 witness: the answer to "a" was just relayed on the Responder link that
\* "a"'s offer created; the link has no local channel, and "b"'s offer is
\* being applied on a second link.
OfferMakesResponderWitness ==
    /\ emitted = <<Signal(Peer, "answer")>>
    /\ Has(peerConnections, Peer)
    /\ peerConnections[Peer].role = "Responder"
    /\ peerConnections[Peer].remoteDescription
    /\ ~Has(dataChannels, Peer)
    /\ liveConnections[Peer] = 1
    /\ Has(peerConnections, "b") /\ "setRemoteOffer" \in peerConnections["b"].ops

\* C27: an answer or a candidate from an id that has no link changes nothing:
\* no link is created, no signal is emitted, and the peer-connection table, the
\* data-channel table, the registry and the timers stay as they were.
SignalWithoutLinkIgnored ==
    [][\A id \in Remote :
          lastEvent' \in {Event("answer", id), Event("candidate", id)} =>
              /\ ~Has(peerConnections, id)
              /\ peerConnections' = peerConnections
              /\ liveConnections' = liveConnections
              /\ dataChannels' = dataChannels
              /\ participants' = participants
              /\ timers' = timers
              /\ emitted' = NoSignals
              /\ notified' = notified]_vars

\* C27 witness: an answer from "a" was just handled after "a"'s link failed:
\* "a" is in the registry, has no link, and the reconnect timer is pending.
SignalWithoutLinkIgnoredWitness ==
    /\ lastEvent = Event("answer", Peer)
    /\ Has(participants, Peer)
    /\ ~Has(peerConnections, Peer)
    /\ Pending("reconnect", Peer) = 1

\* A step in which createPeerConnection for id went on after its awaits of
\* createOffer and setLocalDescription, to its end.
OfferMade(id) ==
    /\ Has(peerConnections, id) /\ "createOffer" \in peerConnections[id].ops
    /\ Has(peerConnections', id) /\ "createOffer" \notin peerConnections'[id].ops

\* A step in which the connection to id handed a candidate to onicecandidate.
CandidateGathered(id) == lastEvent' = Event("icecandidate", <<id, "candidate">>)

\* C28: every candidate a link gathers is relayed at once, as one signal; and
\* every signal that is emitted is the offer, the answer or a candidate of one
\* link and is addressed to that link's id and to no other.
SignalsAddressedToLink ==
    [][/\ \A id \in Remote :
             CandidateGathered(id) => emitted' = <<Signal(id, "candidate")>>
       /\ emitted' # NoSignals =>
             \E id \in Remote :
                 /\ Has(peerConnections', id)
                 /\ \/ CandidateGathered(id) /\ emitted' = <<Signal(id, "candidate")>>
                    \/ OfferMade(id) /\ emitted' = <<Signal(id, "offer")>>
                    \/ OfferSettled(id) /\ emitted' = <<Signal(id, "answer")>>]_vars

\* C28 witness: the link to "b" just gathered a candidate, relayed to "b",
\* while the link to "a" has a local description and gathers too.
SignalsAddressedToLinkWitness ==
    /\ lastEvent = Event("icecandidate", <<"b", "candidate">>)
    /\ emitted = <<Signal("b", "candidate")>>
    /\ Has(peerConnections, Peer)
    /\ LocalDescriptionSet(peerConnections[Peer])

----------------------------------------------------------------------------
(* Independence of the links (SpecPair) *)

\* The step leaves what the manager holds for one remote id as it was: its
\* peer connection, its data channel, its registry entry, and whether its
\* connection is open.
Untouched(id) ==
    /\ liveConnections'[id] = liveConnections[id]
    /\ Has(peerConnections', id) = Has(peerConnections, id)
    /\ Has(dataChannels', id) = Has(dataChannels, id)
    /\ Has(participants', id) = Has(participants, id)
    /\ Has(peerConnections, id) => peerConnections'[id] = peerConnections[id]
    /\ Has(dataChannels, id) => dataChannels'[id] = dataChannels[id]
    /\ Has(participants, id) => participants'[id] = participants[id]

\* A step of an event that concerns id: user-joined (the one event that sets a
\* join timer), user-left, a connection failure (the one event that sets a
\* reconnect timer), the expiry of one of id's timers, or a signal or its
\* continuation that created id's link or moved its negotiation.
Concerns(id) ==
    \/ lastEvent' = Event("user-left", id)
    \/ /\ timers' # timers
       /\ \/ Pending("join", id)' > Pending("join", id)
          \/ Pending("reconnect", id)' > Pending("reconnect", id)
          \/ \E kind \in {"join", "roster", "reconnect"} : TimerFired(kind, id)
    \/ /\ peerConnections' # peerConnections
       /\ Has(peerConnections', id)
       /\ Has(peerConnections, id) => peerConnections'[id] # peerConnections[id]

\* C29: the links of different remote ids are independent: an event that
\* concerns one id leaves the peer connection, the data channel and the registry
\* entry of every other id as they were.
LinksIndependent ==
    [][\A other \in Remote :
          Untouched(other) \/ \A id \in Remote \ {other} : ~Concerns(id)]_vars

\* C29 witness: user-left for "a" was just handled and "a" is gone, while "b"
\* is in the registry with its link and its data channel.
LinksIndependentWitness ==
    /\ lastEvent = Event("user-left", "a")
    /\ ~Has(participants, "a") /\ ~Has(peerConnections, "a")
    /\ Has(participants, "b") /\ Has(peerConnections, "b") /\ Has(dataChannels, "b")

----------------------------------------------------------------------------
(* The mesh is established and kept (SpecLive) *)

\* C30: with every timer firing, a participant that is in the registry without
\* a link (it was added by user-joined or by a snapshot, or its link failed)
\* gets a link, unless it leaves the registry first.
EventuallyLinked ==
    (Has(participants, Peer) /\ ~Has(peerConnections, Peer))
        ~> (Has(peerConnections, Peer) \/ ~Has(participants, Peer))

----------------------------------------------------------------------------
(* Glare between two managers (SpecGlare) *)

\* The link the manager at e holds for the other endpoint.
LinkAt(e) == ends[e].pc[Other(e)]

\* Nothing is left to happen: no signal in the relay, no timer pending, no
\* await in flight, and both managers hold a link without a remote description.
GlareStuck ==
    /\ relay = EmptyBag
    /\ \A e \in Endpoints :
          /\ ~ends[e].timer
          /\ Has(ends[e].pc, Other(e))
          /\ LinkAt(e).ops = {}
          /\ ~LinkAt(e).remoteDescription

\* C31: when both managers create an Initiator link for each other and their
\* offers cross, each still holds exactly one link for the other, and the pair
\* does not end with both links lacking a remote description for good.
GlareSettles ==
    /\ \A e \in Endpoints :
          ends[e].live[Other(e)] = IF Has(ends[e].pc, Other(e)) THEN 1 ELSE 0
    /\ ~GlareStuck

----------------------------------------------------------------------------
(* Properties of the local stream and of its tracks on the links (SpecMedia) *)

\* C33: a start call that acquired its device while a stream exists leaves one
\* combined stream: the old stream's tracks of the other kind and the new
\* track; the old stream's tracks of the started kind are stopped and are not
\* in it.  With no stream before, the stream is the acquired one.
StartCombines ==
    [][\A kind \in Kinds :
          lastEvent' = StartResult(kind, "acquired", "stream") =>
              LET acquired == DOMAIN tracks' \ DOMAIN tracks
                  replaced == TracksOf(localStream, kind)
                  kept == TracksOf(localStream, OtherKind(kind))
              IN  /\ Cardinality(acquired) = 1
                  /\ \A t \in acquired : tracks'[t] = [kind |-> kind, readyState |-> "live"]
                  /\ localStream' = MediaStream(kept \cup acquired)
                  /\ localStream = NoStream => localStream' = MediaStream(acquired)
                  /\ \A t \in replaced : tracks'[t].readyState = "ended"
                  /\ replaced \cap getTracks(localStream') = {}
                  /\ \A t \in kept : tracks'[t] = tracks[t]]_vars

\* C33 witness: startLocalAudio has just succeeded on a stream that held a
\* video track and an audio track: the stream is the video track and the new
\* audio track, and the old audio track is stopped.
StartCombinesWitness ==
    /\ lastEvent = StartResult("audio", "acquired", "stream")
    /\ \E old, new, v \in DOMAIN tracks :
         /\ tracks[old] = [kind |-> "audio", readyState |-> "ended"]
         /\ tracks[new] = [kind |-> "audio", readyState |-> "live"]
         /\ tracks[v] = [kind |-> "video", readyState |-> "live"]
         /\ localStream = MediaStream({v, new})

\* The tracks the step's start call acquired.
Acquired == DOMAIN tracks' \ DOMAIN tracks

\* The links the step created.
Created == DOMAIN peerConnections' \ DOMAIN peerConnections

\* C34: a start call that succeeds attaches the acquired track to every link
\* in the table, and a link created by any step (as initiator or responder,
\* a start call suspended or not) has every track of the local stream attached.
TracksReachLinks ==
    [][/\ \A kind \in Kinds :
            lastEvent' = StartResult(kind, "acquired", "stream") =>
                /\ Acquired # {}
                /\ \A id \in DOMAIN peerConnections :
                      /\ Has(peerConnections', id)
                      /\ Acquired \subseteq peerConnections'[id].senders
       /\ \A id \in Created :
            getTracks(localStream') \subseteq peerConnections'[id].senders]_vars

\* C34 witness: startLocalAudio has just succeeded on a stream with a video
\* track; the responder link to Peer and the initiator link to Joiner carry
\* both tracks of the stream.
TracksReachLinksWitness ==
    /\ lastEvent = StartResult("audio", "acquired", "stream")
    /\ Cardinality(getTracks(localStream)) = 2
    /\ Has(peerConnections, Peer) /\ Has(peerConnections, Joiner)
    /\ peerConnections[Peer].role = "Responder"
    /\ peerConnections[Joiner].role = "Initiator"
    /\ peerConnections[Peer].senders = getTracks(localStream)
    /\ peerConnections[Joiner].senders = getTracks(localStream)

\* C35: no link carries a local track that is not in the current local
\* stream: a track that a stop call removed or a repeated start replaced is
\* attached to no link.
NoStaleSenders ==
    \A id \in DOMAIN peerConnections :
        peerConnections[id].senders \subseteq getTracks(localStream)

----------------------------------------------------------------------------
(* Order and completion of the sends of a transfer *)

\* Positions on the channel of id of the file-info of transfer fileId.
InfoAt(id, fileId) ==
    {k \in 1..Len(wire[id]) : wire[id][k].type = "file-info" /\ wire[id][k].id = fileId}

\* Positions on the channel of id of the file-chunks of transfer fileId.
ChunksAt(id, fileId) ==
    {k \in 1..Len(wire[id]) :
        wire[id][k].type = "file-chunk" /\ wire[id][k].fileId = fileId}

\* The sends of one transfer on one channel are in order: the file-info comes
\* before every chunk and the chunk indexes strictly increase.
InOrder(id, fileId) ==
    /\ Cardinality(InfoAt(id, fileId)) <= 1
    /\ \A k \in ChunksAt(id, fileId) : \E j \in InfoAt(id, fileId) : j < k
    /\ \A j, k \in ChunksAt(id, fileId) :
          j < k => wire[id][j].chunkIndex < wire[id][k].chunkIndex

\* C36: for a sendFile call and each channel, the file-info is sent before any
\* chunk of the transfer, the chunks go out in strictly increasing chunkIndex
\* order, none twice, and a channel that was not open when the call started is
\* sent nothing of the transfer.
SendOrdered ==
    \A c \in DOMAIN transfers : \A id \in Remote :
        /\ InOrder(id, transfers[c].id)
        /\ id \notin transfers[c].openChannels =>
              /\ InfoAt(id, transfers[c].id) = {}
              /\ ChunksAt(id, transfers[c].id) = {}

\* C36 witness: a finished three-chunk transfer that started with the channel
\* of "a" open and that of "b" not: "a" was sent the file-info and the chunks
\* 0, 1, 2 in that order, and "b", open by now, nothing.
SendOrderedWitness ==
    \E c \in DOMAIN transfers :
        /\ transfers[c].pos = "done"
        /\ transfers[c].openChannels = {"a"}
        /\ ReadyState("b") = "open"
        /\ wire["b"] = <<>>
        /\ Len(wire["a"]) = 4
        /\ wire["a"][1].type = "file-info"
        /\ \A k \in 2..4 : wire["a"][k].type = "file-chunk" /\ wire["a"][k].chunkIndex = k - 2

\* The chunk indexes of transfer fileId among the envelopes w, in sending order.
IndexesIn(w, fileId) ==
    LET cs == SelectSeq(w, LAMBDA e : e.type = "file-chunk" /\ e.fileId = fileId)
    IN  [k \in 1..Len(cs) |-> cs[k].chunkIndex]

\* A step of the sendFile call c: its continuation after arrayBuffer() or one
\* firing of its inter-chunk timer.
LoopStep(c) == Has(transfers, c) /\ transfers'[c] # transfers[c]

\* C37: a captured channel that is not open when a chunk is due (a send on it
\* would throw) is skipped for that chunk and the loop goes on: the call does
\* not throw, the index advances, every captured channel that is open is sent
\* the chunk, no chunk of a lower index is sent again, and a finished call has
\* sent every chunk 0..totalChunks-1 to each captured channel still open.
SkipWithoutAbort ==
    /\ [](\A c \in DOMAIN transfers : \A id \in transfers[c].openChannels :
            (transfers[c].pos = "done" /\ ReadyState(id) = "open") =>
                IndexesIn(wire[id], transfers[c].id) =
                    [k \in 1..TotalChunks(transfers[c].size) |-> k - 1])
    /\ [][\A c \in 1..MaxCalls : LoopStep(c) =>
            LET t == transfers[c]
                due == t.i < TotalChunks(t.size)
            IN  /\ thrown' = thrown
                /\ transfers'[c].pos = IF due THEN "waiting" ELSE "done"
                /\ transfers'[c].i = IF due THEN t.i + 1 ELSE t.i
                /\ \A f \in {transfers'[c].id} : \A id \in Remote :
                      IndexesIn(wire'[id], f) =
                          IF due /\ id \in t.openChannels /\ ReadyState(id) = "open"
                          THEN Append(IndexesIn(wire[id], f), t.i)
                          ELSE IndexesIn(wire[id], f)]_vars

\* C37 witness: a finished three-chunk transfer to "a" and "b" during which the
\* channel of "b" closed after chunk 0: "b" was sent chunk 0 only, and "a",
\* still open, the chunks 0, 1, 2.
SkipWithoutAbortWitness ==
    \E c \in DOMAIN transfers :
        /\ transfers[c].pos = "done"
        /\ transfers[c].openChannels = {"a", "b"}
        /\ thrown = 0
        /\ ReadyState("a") = "open" /\ ReadyState("b") = "closed"
        /\ IndexesIn(wire["a"], transfers[c].id) = <<0, 1, 2>>
        /\ IndexesIn(wire["b"], transfers[c].id) = <<0>>

\* The sendFile call c passed the open-channel test and has not returned.
Running(c) == Has(transfers, c) /\ transfers[c].pos \in {"reading", "waiting"}

\* The sendFile call c returned after totalChunks loop iterations.
Returned(c) ==
    /\ Has(transfers, c)
    /\ transfers[c].pos = "done"
    /\ transfers[c].i = TotalChunks(transfers[c].size)

\* C38: with the continuation of arrayBuffer() and the inter-chunk timer firing,
\* a sendFile call that passed the open-channel test returns after exactly
\* totalChunks loop iterations, whatever happens to the channels meanwhile.
SendTerminates ==
    \A c \in 1..MaxCalls :
        /\ [](Has(transfers, c) =>
                /\ transfers[c].i <= TotalChunks(transfers[c].size)
                /\ transfers[c].pos = "done" => Returned(c))
        /\ Running(c) ~> Returned(c)

\* C38 witness: a two-chunk transfer to "a" returned after cleanup emptied the
\* tables in the middle of it: "a" was not sent all the chunks.
SendTerminatesWitness ==
    \E c \in DOMAIN transfers :
        /\ Returned(c)
        /\ transfers[c].i = 2
        /\ transfers[c].openChannels = {"a"}
        /\ lastEvent = NoEvent
        /\ dataChannels = EmptyMap /\ peerConnections = EmptyMap
        /\ Len(wire["a"]) \in 1..2

----------------------------------------------------------------------------
(* Two transfers at once (SpecTwoSends) *)

\* The calls that have drawn their transfer id.
Drawn == {c \in DOMAIN transfers : transfers[c].id # NoTransfer}

\* C39: two sendFile calls whose loops interleave draw distinct transfer ids;
\* every file-chunk sent carries the id, an index and the totalChunks of one
\* of the transfers, with the bytes of that transfer at that index; and on
\* each channel the chunks of each transfer follow its file-info in increasing
\* index order.
TransfersMultiplexed ==
    /\ \A c, d \in Drawn : c # d => transfers[c].id # transfers[d].id
    /\ \A id \in Remote : \A k \in 1..Len(wire[id]) :
          wire[id][k].type = "file-chunk" =>
              \E c \in Drawn :
                  /\ wire[id][k].fileId = transfers[c].id
                  /\ wire[id][k].totalChunks = TotalChunks(transfers[c].size)
                  /\ wire[id][k].chunkIndex \in 0..(transfers[c].i - 1)
                  /\ wire[id][k].data = Slice(transfers[c].size, wire[id][k].chunkIndex)
    /\ \A id \in Remote : \A c \in Drawn : InOrder(id, transfers[c].id)

\* C39 witness: two finished transfers of two and of three chunks to "a" whose
\* loops interleaved: a chunk of the second went out between two chunks of the
\* first, and "a" was sent all five chunks and both file-infos.
TransfersMultiplexedWitness ==
    /\ Drawn = Concurrent
    /\ transfers[1].pos = "done" /\ transfers[2].pos = "done"
    /\ transfers[1].size = 16400 /\ transfers[2].size = 32769
    /\ Len(wire["a"]) = 7
    /\ IndexesIn(wire["a"], transfers[1].id) = <<0, 1>>
    /\ IndexesIn(wire["a"], transfers[2].id) = <<0, 1, 2>>
    /\ \E j, k, l \in ChunksAt("a", transfers[1].id) \cup ChunksAt("a", transfers[2].id) :
          /\ j < k /\ k < l
          /\ wire["a"][j].fileId = transfers[1].id
          /\ wire["a"][k].fileId = transfers[2].id
          /\ wire["a"][l].fileId = transfers[1].id

====
